---- MODULE Spec2Model ----
(***************************************************************************)
(* The compaction safeguard of src/agents/pi-extensions: one               *)
(* session_before_compact handler run per compaction cycle, the memory     *)
(* service it stores to and queries, and the staged summarizer, history    *)
(* pruner and chunk-ratio calculator it calls (../compaction.js).          *)
(*                                                                         *)
(* Text is a sequence of atoms (records with a field t): concatenation of  *)
(* strings is concatenation of sequences, the empty string is << >>.       *)
(* Ratios and shares are per-mille integers (0.5 is 500).                  *)
(* An action is the code between two suspension points (await of a fetch,  *)
(* of getApiKey or of a model call) of one handler run.                    *)
(***************************************************************************)
EXTENDS Integers, Sequences, FiniteSets, TLC

\* ------------------------------------------------------------------ bounds
MaxMsgs == 3
MaxPrefix == 1
MaxProbeLen == 4
MaxTurns == 5
MaxInputs == 1
MaxBufTurns == 31
MaxEmptyTurns == 1

\* --------------------------------------------------------------- constants
MAX_TOOL_FAILURES == 8
DefaultMaxHistoryShare == 500
PruneParts == 2
MEMORY_ENABLED == TRUE
MemoryQueryLimit == 3

\* memory-extractor.ts
EXTRACT_EVERY_N_TURNS == 3
EXTRACT_ENABLED == TRUE
MAX_CONTEXT_MESSAGES == 30
MinBufferedMessages == 3

\* ../compaction.js (per-mille)
BASE_CHUNK_RATIO == 400
MIN_CHUNK_RATIO == 150
SAFETY_MARGIN == 900
DefaultContextWindow == 100

\* ------------------------------------------------------------------- text
Atom(kind) == [t |-> kind, a |-> 0, b |-> 0, s |-> {}]
FALLBACK_SUMMARY == << Atom("fallback") >>
TurnPrefixSeparator == << Atom("turn-context-separator") >>
CustomInstructions == "custom"
TURN_PREFIX_INSTRUCTIONS == "turn-prefix"

\* an optional string: undefined, or a text
Undefined == [def |-> FALSE, txt |-> << >>]
Some(txt) == [def |-> TRUE, txt |-> txt]
\* x ?? y
OrElse(x, y) == IF x.def THEN x ELSE y
\* `${x}` of a string | undefined known to be a string, and (x ?? "")
TextOf(x) == IF x.def THEN x.txt ELSE << >>

\* Math.floor(n * x * y) for fractions x and y given in thousandths: the value
\* of (n * x * y) \div 1000000, computed without a product beyond 32 bits
ScaleTwice(n, x, y) ==
    LET p == x * y
    IN (n * (p \div 1000) + (n * (p % 1000)) \div 1000) \div 1000

Min(a, b) == IF a < b THEN a ELSE b
Max(a, b) == IF a > b THEN a ELSE b

RECURSIVE SortedSeq(_)
SortedSeq(S) ==
    IF S = {} THEN << >>
    ELSE LET m == CHOOSE x \in S : \A y \in S : x <= y
         IN << m >> \o SortedSeq(S \ {m})

RECURSIVE SumTok(_)
SumTok(msgs) ==
    IF msgs = << >> THEN 0 ELSE Head(msgs).tok + SumTok(Tail(msgs))

\* ------------------------------------------------- ../compaction.js (spec)
estimateMessagesTokens(msgs) == SumTok(msgs)

resolveContextWindowTokens(model) == DefaultContextWindow

\* the reduction not clamped to the two bounds
computeAdaptiveChunkRatio_Unclamped(msgs, contextWindow) ==
    IF Len(msgs) = 0 THEN BASE_CHUNK_RATIO
    ELSE LET avgRatio == (estimateMessagesTokens(msgs) * 1000)
                            \div (Len(msgs) * contextWindow)
         IN IF avgRatio > 100
            THEN BASE_CHUNK_RATIO - avgRatio * 2
            ELSE BASE_CHUNK_RATIO

computeAdaptiveChunkRatio(msgs, contextWindow) ==
    IF Len(msgs) = 0 THEN BASE_CHUNK_RATIO
    ELSE LET avgRatio == (estimateMessagesTokens(msgs) * 1000)
                            \div (Len(msgs) * contextWindow)
         IN IF avgRatio > 100
            THEN Max(MIN_CHUNK_RATIO,
                     BASE_CHUNK_RATIO
                       - Min(avgRatio * 2, BASE_CHUNK_RATIO - MIN_CHUNK_RATIO))
            ELSE BASE_CHUNK_RATIO

isOversizedForSummary(msg, ceilingTokens) == msg.tok > ceilingTokens

\* a message that fits no chunk is left out
RECURSIVE ChunkFrom_SkipsOversized(_, _, _)
ChunkFrom_SkipsOversized(msgs, cur, maxTokens) ==
    IF msgs = << >> THEN (IF cur = << >> THEN << >> ELSE << cur >>)
    ELSE LET m == Head(msgs)
         IN IF m.tok > maxTokens
            THEN ChunkFrom_SkipsOversized(Tail(msgs), cur, maxTokens)
            ELSE IF cur # << >> /\ SumTok(cur) + m.tok > maxTokens
                 THEN << cur >> \o ChunkFrom_SkipsOversized(Tail(msgs), << m >>, maxTokens)
                 ELSE ChunkFrom_SkipsOversized(Tail(msgs), Append(cur, m), maxTokens)

\* the ceiling checked after the message is added: a chunk is closed once it
\* is over the ceiling
RECURSIVE ChunkFrom_ClosesWhenOver(_, _, _)
ChunkFrom_ClosesWhenOver(msgs, cur, maxTokens) ==
    IF msgs = << >> THEN (IF cur = << >> THEN << >> ELSE << cur >>)
    ELSE LET next == Append(cur, Head(msgs))
         IN IF SumTok(next) > maxTokens
            THEN << next >> \o ChunkFrom_ClosesWhenOver(Tail(msgs), << >>, maxTokens)
            ELSE ChunkFrom_ClosesWhenOver(Tail(msgs), next, maxTokens)

\* Greedy partition at message boundaries under a token ceiling; a message that
\* alone exceeds the ceiling gets a chunk of its own (it is truncated there).
RECURSIVE ChunkFrom(_, _, _)
ChunkFrom(msgs, cur, maxTokens) ==
    IF msgs = << >> THEN (IF cur = << >> THEN << >> ELSE << cur >>)
    ELSE LET m == Head(msgs)
         IN IF cur # << >> /\ SumTok(cur) + m.tok > maxTokens
            THEN << cur >> \o ChunkFrom(Tail(msgs), << m >>, maxTokens)
            ELSE ChunkFrom(Tail(msgs), Append(cur, m), maxTokens)

chunkMessagesByMaxTokens(msgs, maxTokens) == ChunkFrom(msgs, << >>, maxTokens)

\* Split into `parts` groups of roughly equal token share, oldest first.
RECURSIVE SplitFrom(_, _, _, _, _)
SplitFrom(msgs, cur, done, parts, target) ==
    IF msgs = << >> THEN (IF cur = << >> THEN done ELSE Append(done, cur))
    ELSE LET m == Head(msgs)
         IN IF Len(done) < parts - 1 /\ cur # << >> /\ SumTok(cur) + m.tok > target
            THEN SplitFrom(Tail(msgs), << m >>, Append(done, cur), parts, target)
            ELSE SplitFrom(Tail(msgs), Append(cur, m), done, parts, target)

splitMessagesByTokenShare(msgs, parts) ==
    IF msgs = << >> THEN << >>
    ELSE SplitFrom(msgs, << >>, << >>, parts, SumTok(msgs) \div parts)

RECURSIVE Flatten(_)
Flatten(groups) ==
    IF groups = << >> THEN << >> ELSE Head(groups) \o Flatten(Tail(groups))

MaxHistoryTokens(maxContextTokens, maxHistoryShare) ==
    ScaleTwice(maxContextTokens, maxHistoryShare, SAFETY_MARGIN)

\* the two counts swapped: droppedChunks counts messages, droppedMessages groups
RECURSIVE DropGroups_CountsSwapped(_, _, _)
DropGroups_CountsSwapped(groups, dropped, budget) ==
    IF Len(groups) > 1 /\ SumTok(Flatten(groups)) > budget
    THEN DropGroups_CountsSwapped(Tail(groups), Append(dropped, Head(groups)), budget)
    ELSE [messages |-> Flatten(groups),
          droppedMessagesList |-> Flatten(dropped),
          droppedChunks |-> Len(Flatten(dropped)),
          droppedMessages |-> Len(dropped)]

\* groups are dropped until the rest is within the budget, the last one too
RECURSIVE DropGroups_MayDropAll(_, _, _)
DropGroups_MayDropAll(groups, dropped, budget) ==
    IF Len(groups) > 0 /\ SumTok(Flatten(groups)) > budget
    THEN DropGroups_MayDropAll(Tail(groups), Append(dropped, Head(groups)), budget)
    ELSE [messages |-> Flatten(groups),
          droppedMessagesList |-> Flatten(dropped),
          droppedChunks |-> Len(dropped),
          droppedMessages |-> Len(Flatten(dropped))]

\* at most one group is dropped, whatever is left over the budget
DropGroups_AtMostOne(groups, dropped, budget) ==
    IF Len(groups) > 1 /\ SumTok(Flatten(groups)) > budget
    THEN [messages |-> Flatten(Tail(groups)),
          droppedMessagesList |-> Flatten(Append(dropped, Head(groups))),
          droppedChunks |-> Len(dropped) + 1,
          droppedMessages |-> Len(Flatten(Append(dropped, Head(groups))))]
    ELSE [messages |-> Flatten(groups),
          droppedMessagesList |-> Flatten(dropped),
          droppedChunks |-> Len(dropped),
          droppedMessages |-> Len(Flatten(dropped))]

\* the dropped groups collected newest first
RECURSIVE DropGroups_DroppedReversed(_, _, _)
DropGroups_DroppedReversed(groups, dropped, budget) ==
    IF Len(groups) > 1 /\ SumTok(Flatten(groups)) > budget
    THEN DropGroups_DroppedReversed(Tail(groups), << Head(groups) >> \o dropped, budget)
    ELSE [messages |-> Flatten(groups),
          droppedMessagesList |-> Flatten(dropped),
          droppedChunks |-> Len(dropped),
          droppedMessages |-> Len(Flatten(dropped))]

\* Drop whole groups from the oldest end while the rest is over budget and more
\* than one group remains.
RECURSIVE DropGroups(_, _, _)
DropGroups(groups, dropped, budget) ==
    IF Len(groups) > 1 /\ SumTok(Flatten(groups)) > budget
    THEN DropGroups(Tail(groups), Append(dropped, Head(groups)), budget)
    ELSE [messages |-> Flatten(groups),
          droppedMessagesList |-> Flatten(dropped),
          droppedChunks |-> Len(dropped),
          droppedMessages |-> Len(Flatten(dropped))]

pruneHistoryForContextShare(msgs, maxContextTokens, maxHistoryShare, parts) ==
    DropGroups(splitMessagesByTokenShare(msgs, parts), << >>,
               MaxHistoryTokens(maxContextTokens, maxHistoryShare))


\* ------------------------------------------------------------ tool failures
\* collectToolFailures: the toolResult messages with isError === true
collectToolFailures(msgs) == SelectSeq(msgs, LAMBDA m : m.role = "toolResult" /\ m.fail)

formatToolFailuresSection(failures) ==
    IF Len(failures) = 0 THEN << >>
    ELSE << [t |-> "tool-failures",
             a |-> Min(Len(failures), MAX_TOOL_FAILURES),
             b |-> Max(Len(failures) - MAX_TOOL_FAILURES, 0),
             s |-> {}] >>

\* ------------------------------------------------------------ file lists
computeFileLists(fileOps) ==
    LET modified == fileOps.edited \cup fileOps.written
    IN [readFiles |-> SortedSeq(fileOps.read \ modified),
        modifiedFiles |-> SortedSeq(modified)]

\* the lines of a file list: every item of a text atom is a record [t, a, b]
FileItems(files) == {[t |-> "file", a |-> files[i], b |-> 0] : i \in 1..Len(files)}

formatFileOperations(readFiles, modifiedFiles) ==
    (IF Len(readFiles) > 0
        THEN << [t |-> "read-files", a |-> 0, b |-> 0,
                 s |-> FileItems(readFiles)] >>
        ELSE << >>)
    \o
    (IF Len(modifiedFiles) > 0
        THEN << [t |-> "modified-files", a |-> 0, b |-> 0,
                 s |-> FileItems(modifiedFiles)] >>
        ELSE << >>)

\* ------------------------------------------------------------ memories
\* extractMemoryQuery: the string contents of the last 10 messages; tool results
\* carry block content and add nothing. TRUE when the query is not empty.
extractMemoryQuery(msgs) ==
    \E i \in 1..Len(msgs) : i > Len(msgs) - 10 /\ msgs[i].role # "toolResult"

formatMemoriesSection(memories) ==
    IF memories = {} THEN << >>
    ELSE << [t |-> "retrieved-memories", a |-> 0, b |-> 0, s |-> memories] >>

\* the memory the store request writes for a work-in-progress record
WipMemory(wip) == [t |-> "wip", a |-> wip.a, b |-> wip.b]
OldMemory == [t |-> "old", a |-> 0, b |-> 0]

\* ------------------------------------------------- memory-extractor.ts
\* The module's globals, one copy in the process whatever the number of
\* sessions, with the runs of extractAndStore and the turn_end handlers that
\* have been entered (logs the code does not keep) and the last event handled
\* with the session that emitted it (0 for a network reply).
ApiKeys == {"openai", "anthropic", "none"}

InitialExtractor(apiKey) ==
    [_extracting |-> FALSE, _turnCount |-> 0, _lastExtractedTurn |-> -1,
     _messageBuffer |-> << >>,
     apiKey |-> apiKey, runs |-> << >>, handlers |-> << >>, inputs |-> 0,
     arrivals |-> 0,
     lastEvent |-> [kind |-> "none", session |-> 0]]

\* the trim keeps the head of the buffer: slice(0, MAX_CONTEXT_MESSAGES)
PushMessage_KeepsOldest(buffer, m) ==
    LET pushed == Append(buffer, m)
    IN IF Len(pushed) > MAX_CONTEXT_MESSAGES
       THEN SubSeq(pushed, 1, MAX_CONTEXT_MESSAGES)
       ELSE pushed

\* push and trim, lines 246-250 and 267-270; a text is named by its arrival number
PushMessage(buffer, m) ==
    LET pushed == Append(buffer, m)
    IN IF Len(pushed) > MAX_CONTEXT_MESSAGES
       THEN SubSeq(pushed, Len(pushed) - MAX_CONTEXT_MESSAGES + 1, Len(pushed))
       ELSE pushed

NewExtraction(e) ==
    [turn |-> e._turnCount, pc |-> "start",
     outcome |-> "", buffered |-> Len(e._messageBuffer),
     lockedAtStart |-> e._extracting,
     setLock |-> FALSE, calledModel |-> FALSE]

\* a return that leaves extractAndStore before its try block, lines 89-90
ReturnsBeforeTry(e, i, outcome) ==
    [e EXCEPT !.runs[i].pc = "done", !.runs[i].outcome = outcome]

\* a return or a caught error inside the try block: the finally of lines 233-235
RunEnds(e, i, outcome) ==
    [e EXCEPT !.runs[i].pc = "done", !.runs[i].outcome = outcome,
              !._extracting = FALSE]

\* the catch of lines 231-232
OnRunError(e, i) == RunEnds(e, i, "caught")

\* no test of the lock at line 89
extractAndStore_Reentrant(e) ==
    LET i == Len(e.runs) + 1
        e1 == [e EXCEPT !.runs = Append(@, NewExtraction(e))]
    IN IF ~EXTRACT_ENABLED THEN ReturnsBeforeTry(e1, i, "busy")
       ELSE IF Len(e1._messageBuffer) < MinBufferedMessages
            THEN ReturnsBeforeTry(e1, i, "short")
       ELSE LET e2 == [e1 EXCEPT !._extracting = TRUE, !.runs[i].setLock = TRUE]
            IN IF e2.apiKey = "none" THEN RunEnds(e2, i, "noKey")
               ELSE [e2 EXCEPT !.runs[i].pc = "model",
                               !.runs[i].calledModel = TRUE]

\* extractAndStore up to its first await, lines 88-159
extractAndStore(e) ==
    LET i == Len(e.runs) + 1
        e1 == [e EXCEPT !.runs = Append(@, NewExtraction(e))]
    IN IF e1._extracting \/ ~EXTRACT_ENABLED THEN ReturnsBeforeTry(e1, i, "busy")
       ELSE IF Len(e1._messageBuffer) < MinBufferedMessages
            THEN ReturnsBeforeTry(e1, i, "short")
       ELSE LET e2 == [e1 EXCEPT !._extracting = TRUE, !.runs[i].setLock = TRUE]
            IN IF e2.apiKey = "none" THEN RunEnds(e2, i, "noKey")
               ELSE [e2 EXCEPT !.runs[i].pc = "model",
                               !.runs[i].calledModel = TRUE]

\* the model's reply arrives, lines 107-206
AfterModel(e, i, reply) ==
    CASE reply = "rejects" -> OnRunError(e, i)
      [] reply = "notOk" -> RunEnds(e, i, "modelError")
      [] reply = "unparsable" -> RunEnds(e, i, "unparsable")
      [] reply = "empty" -> RunEnds(e, i, "empty")
      [] OTHER -> [e EXCEPT !.runs[i].pc = "store"]

\* the memory service's reply to the store request arrives, lines 211-230
AfterStore(e, i, reply) ==
    CASE reply = "rejects" -> OnRunError(e, i)
      [] reply = "notOk" -> RunEnds(e, i, "storeError")
      [] OTHER -> RunEnds(e, i, "stored")

\* the handler awaits the promise: it has not returned while the run is in flight
FireAndForget_Awaited(e) ==
    [e EXCEPT !.handlers =
        Append(@, IF e.runs[Len(e.runs)].pc = "done" THEN "returned" ELSE "awaiting")]

\* the handler goes on without awaiting the promise, lines 256-259, and returns
FireAndForget(e) == [e EXCEPT !.handlers = Append(@, "returned")]

\* the turn_end handler, lines 240-261
turn_end(e, session, hasText) ==
    LET e1 == [e EXCEPT
                 !._turnCount = @ + 1,
                 !._messageBuffer =
                     IF hasText
                     THEN PushMessage(@, [role |-> "Assistant", text |-> e.arrivals + 1])
                     ELSE @,
                 !.arrivals = IF hasText THEN @ + 1 ELSE @,
                 !.lastEvent = [kind |-> "turn_end", session |-> session]]
    IN IF e1._turnCount - e1._lastExtractedTurn >= EXTRACT_EVERY_N_TURNS
       THEN FireAndForget(extractAndStore(
                [e1 EXCEPT !._lastExtractedTurn = e1._turnCount]))
       ELSE [e1 EXCEPT !.handlers = Append(@, "returned")]

\* the input handler, lines 264-272; accepted: the text has more than 5 characters
input(e, session, accepted) ==
    [e EXCEPT
       !._messageBuffer =
           IF accepted THEN PushMessage(@, [role |-> "Human", text |-> e.arrivals + 1])
           ELSE @,
       !.arrivals = IF accepted THEN @ + 1 ELSE @,
       !.inputs = @ + 1,
       !.lastEvent = [kind |-> "input", session |-> session]]

\* the memory an extraction stores
ExtractionMemory == [t |-> "extraction", a |-> 0, b |-> 0]

\* ---------------------------------------------------------------- state
VARIABLES
    cyc,        \* session -> the state of its session_before_compact handler run
    memStore,   \* world -> the memories the memory service of that world holds
    script,     \* the inputs and replies drawn in advance for a replayed cycle
    probe,      \* the last call of a pure function: its arguments and its result
    ext         \* the memory extractor: its module globals, runs and handlers

vars == << cyc, memStore, script, probe, ext >>

NotANumber == [finite |-> FALSE, v |-> 0]
Finite(n) == [finite |-> TRUE, v |-> n]
NoShare == [def |-> FALSE, v |-> 0]
NoWip == [def |-> FALSE, a |-> 0, b |-> 0]

NoPreparation ==
    [messagesToSummarize |-> << >>, turnPrefixMessages |-> << >>,
     isSplitTurn |-> FALSE, tokensBefore |-> NotANumber,
     firstKeptEntryId |-> "", previousSummary |-> Undefined,
     reserveTokens |-> 0,
     fileOps |-> [read |-> {}, edited |-> {}, written |-> {}]]

NoResult ==
    [kind |-> "none", summary |-> << >>, firstKeptEntryId |-> "",
     tokensBefore |-> NotANumber,
     details |-> [readFiles |-> << >>, modifiedFiles |-> << >>]]

NoPruned ==
    [messages |-> << >>, droppedMessagesList |-> << >>,
     droppedChunks |-> 0, droppedMessages |-> 0]

\* A handler run that has not been started: the event has not fired.
IdleCycle(w) ==
    [pc |-> "idle", world |-> w, cycle |-> 0,
     \* the event and the context
     prep |-> NoPreparation, hasModel |-> FALSE, runtimeShare |-> NoShare,
     wip |-> NoWip, aborted |-> FALSE, credential |-> "unasked",
     \* the handler's locals
     readFiles |-> << >>, modifiedFiles |-> << >>,
     fileOpsSummary |-> << >>, toolFailureSection |-> << >>,
     memoriesSection |-> << >>, fallbackSummary |-> << >>,
     messagesToSummarize |-> << >>, droppedSummary |-> Undefined,
     maxChunkTokens |-> 0, reserveTokens |-> 0, historySummary |-> << >>,
     \* the staged run in flight
     pass |-> "", chunks |-> << >>, k |-> 0, prior |-> Undefined,
     instr |-> "", passMaxChunk |-> 0,
     \* what the run returned
     result |-> NoResult, path |-> "",
     \* history: model calls, memory requests, console.warn lines, pruning
     calls |-> << >>, memLog |-> << >>, warns |-> << >>,
     abortedAt |-> [pc |-> "", pass |-> "", k |-> 0, n |-> 0],
     pruneInvoked |-> FALSE, pruned |-> NoPruned]

\* ------------------------------------------------ the handler, return paths
\* details.readFiles taken from fileOps.read as it is, modified files included
Compaction_RawReadFiles(c, summary) ==
    [kind |-> "artifact", summary |-> summary,
     firstKeptEntryId |-> c.prep.firstKeptEntryId,
     tokensBefore |-> c.prep.tokensBefore,
     details |-> [readFiles |-> SortedSeq(c.prep.fileOps.read),
                  modifiedFiles |-> c.modifiedFiles]]

\* the `compaction` object of every return statement (570-577, 582-589, 702-709,
\* 716-723)
Compaction(c, summary) ==
    [kind |-> "artifact", summary |-> summary,
     firstKeptEntryId |-> c.prep.firstKeptEntryId,
     tokensBefore |-> c.prep.tokensBefore,
     details |-> [readFiles |-> c.readFiles, modifiedFiles |-> c.modifiedFiles]]

Return(c, summary, path) ==
    [c EXCEPT !.pc = "returned", !.result = Compaction(c, summary), !.path = path,
              !.pass = "", !.chunks = << >>, !.k = 0, !.prior = Undefined,
              !.instr = "", !.passMaxChunk = 0]

\* the retrieved memories put before the fixed fallback text
FallbackSummaryText_MemoriesFirst(toolFailureSection, fileOpsSummary, memoriesSection) ==
    memoriesSection \o FALLBACK_SUMMARY \o toolFailureSection \o fileOpsSummary

\* line 566
FallbackSummaryText(toolFailureSection, fileOpsSummary, memoriesSection) ==
    FALLBACK_SUMMARY \o toolFailureSection \o fileOpsSummary \o memoriesSection

\* the memories appended before the file operations
AppendSections_MemoriesFirst(summary, toolFailureSection, fileOpsSummary, memoriesSection) ==
    summary \o toolFailureSection \o memoriesSection \o fileOpsSummary

\* lines 698-700
AppendSections(summary, toolFailureSection, fileOpsSummary, memoriesSection) ==
    summary \o toolFailureSection \o fileOpsSummary \o memoriesSection

\* line 695
JoinSplitTurn(historySummary, prefixSummary) ==
    historySummary \o TurnPrefixSeparator \o prefixSummary

\* a catch that keeps the summary built so far (best effort)
OnSummarizationError_Partial(c) ==
    Return([c EXCEPT !.warns = Append(@, "summarization-failed")],
           TextOf(c.prior) \o c.toolFailureSection \o c.fileOpsSummary
               \o c.memoriesSection, "fallback")

\* the catch of lines 710-724
OnSummarizationError(c) ==
    Return([c EXCEPT !.warns = Append(@, "summarization-failed")],
           c.fallbackSummary, "fallback")

\* lines 698-709
Assemble(c, summary) ==
    Return(c, AppendSections(summary, c.toolFailureSection, c.fileOpsSummary,
                             c.memoriesSection), "success")

\* ------------------------------------------------ summarizeInStages (spec)
Reply(pass, k) == << [t |-> "reply", a |-> k, b |-> 0, s |-> {[t |-> pass, a |-> 0, b |-> 0]}] >>

\* the model invocation for chunk k of a staged run, awaited
StartCall(c, pass, chunks, k, prior, instr, maxChunkTokens, reserveTokens) ==
    [c EXCEPT !.pc = "call", !.pass = pass, !.chunks = chunks, !.k = k,
              !.prior = prior, !.instr = instr, !.passMaxChunk = maxChunkTokens,
              !.calls = Append(@, [pass |-> pass, k |-> k, n |-> Len(chunks),
                                   prior |-> prior, instr |-> instr,
                                   maxChunkTokens |-> maxChunkTokens,
                                   reserveTokens |-> reserveTokens,
                                   status |-> "inflight"])]

EndCall(c, status) ==
    [c EXCEPT !.calls = [@ EXCEPT ![Len(@)].status = status]]

\* ------------------------------------------------ the handler, try block
\* lines 683-696
AfterPrefix(c, prefixSummary) ==
    Assemble(c, JoinSplitTurn(c.historySummary, prefixSummary))

\* the prefix summarized whenever there is one, split turn or not
RunsPrefixPass_AnyPrefix(isSplitTurn, turnPrefixMessages) ==
    Len(turnPrefixMessages) > 0

\* line 683
RunsPrefixPass(isSplitTurn, turnPrefixMessages) ==
    isSplitTurn /\ Len(turnPrefixMessages) > 0

\* the prefix pass sized by the adaptive ratio over the prefix alone
AfterHistory_OwnPrefixSizing(c, historySummary) ==
    LET c1 == [c EXCEPT !.historySummary = historySummary]
        contextWindowTokens == resolveContextWindowTokens(c.hasModel)
        prefixChunkTokens ==
            Max(1, (contextWindowTokens
                      * computeAdaptiveChunkRatio(c.prep.turnPrefixMessages,
                                                  contextWindowTokens)) \div 1000)
    IN IF RunsPrefixPass(c.prep.isSplitTurn, c.prep.turnPrefixMessages)
       THEN StartCall(c1, "prefix",
                      chunkMessagesByMaxTokens(c.prep.turnPrefixMessages,
                                               prefixChunkTokens),
                      1, Undefined, TURN_PREFIX_INSTRUCTIONS,
                      prefixChunkTokens, c.reserveTokens)
       ELSE Assemble(c1, historySummary)

\* lines 682-696
AfterHistory(c, historySummary) ==
    LET c1 == [c EXCEPT !.historySummary = historySummary]
    IN IF RunsPrefixPass(c.prep.isSplitTurn, c.prep.turnPrefixMessages)
       THEN StartCall(c1, "prefix",
                      chunkMessagesByMaxTokens(c.prep.turnPrefixMessages,
                                               c.maxChunkTokens),
                      1, Undefined, TURN_PREFIX_INSTRUCTIONS,
                      c.maxChunkTokens, c.reserveTokens)
       ELSE Assemble(c1, historySummary)

\* the two operands of ?? exchanged: previousSummary wins when it is given
EffectivePreviousSummary_PreviousFirst(droppedSummary, previousSummary) ==
    OrElse(previousSummary, droppedSummary)

\* line 668
EffectivePreviousSummary(droppedSummary, previousSummary) ==
    OrElse(droppedSummary, previousSummary)

\* the model is called for the history pass even when there is no message
BeginHistory_AlwaysCalls(c) ==
    LET contextWindowTokens == resolveContextWindowTokens(c.hasModel)
        allMessages == c.messagesToSummarize \o c.prep.turnPrefixMessages
        adaptiveRatio == computeAdaptiveChunkRatio(allMessages, contextWindowTokens)
        maxChunkTokens == Max(1, (contextWindowTokens * adaptiveRatio) \div 1000)
        reserveTokens == Max(1, c.prep.reserveTokens)
        effectivePreviousSummary ==
            EffectivePreviousSummary(c.droppedSummary, c.prep.previousSummary)
        c1 == [c EXCEPT !.maxChunkTokens = maxChunkTokens,
                        !.reserveTokens = reserveTokens]
    IN StartCall(c1, "history",
                 chunkMessagesByMaxTokens(c.messagesToSummarize, maxChunkTokens),
                 1, effectivePreviousSummary, CustomInstructions,
                 maxChunkTokens, reserveTokens)

\* lines 663-680
BeginHistory(c) ==
    LET contextWindowTokens == resolveContextWindowTokens(c.hasModel)
        allMessages == c.messagesToSummarize \o c.prep.turnPrefixMessages
        adaptiveRatio == computeAdaptiveChunkRatio(allMessages, contextWindowTokens)
        maxChunkTokens == Max(1, (contextWindowTokens * adaptiveRatio) \div 1000)
        reserveTokens == Max(1, c.prep.reserveTokens)
        effectivePreviousSummary ==
            EffectivePreviousSummary(c.droppedSummary, c.prep.previousSummary)
        c1 == [c EXCEPT !.maxChunkTokens = maxChunkTokens,
                        !.reserveTokens = reserveTokens]
    IN IF Len(c.messagesToSummarize) = 0
       THEN AfterHistory(c1, TextOf(effectivePreviousSummary))
       ELSE StartCall(c1, "history",
                      chunkMessagesByMaxTokens(c.messagesToSummarize, maxChunkTokens),
                      1, effectivePreviousSummary, CustomInstructions,
                      maxChunkTokens, reserveTokens)

\* line 640: the dropped pass returned
AfterDropped(c, droppedSummary) ==
    BeginHistory([c EXCEPT !.droppedSummary = Some(droppedSummary)])

\* no inner try: the failure of the dropped pass reaches the outer catch
OnDroppedError_Rethrow(c) == OnSummarizationError(c)

\* the catch of lines 651-657
OnDroppedError(c) ==
    BeginHistory([c EXCEPT !.warns = Append(@, "dropped-summary-failed")])

\* lines 608-610
NewContentTokens(tokensBefore, msgs, prefix) ==
    Max(0, tokensBefore - (estimateMessagesTokens(msgs) + estimateMessagesTokens(prefix)))

\* the safety margin left out
HistoryBudget_NoMargin(contextWindowTokens, maxHistoryShare) ==
    ScaleTwice(contextWindowTokens, maxHistoryShare, 1000)

\* line 611
HistoryBudget(contextWindowTokens, maxHistoryShare) ==
    ScaleTwice(contextWindowTokens, maxHistoryShare, SAFETY_MARGIN)

\* the comparison not strict
ShouldPrune_AtBudget(tokensBefore, msgs, prefix, contextWindowTokens, maxHistoryShare) ==
    /\ tokensBefore.finite
    /\ NewContentTokens(tokensBefore.v, msgs, prefix)
         >= HistoryBudget(contextWindowTokens, maxHistoryShare)

\* lines 600-613
ShouldPrune(tokensBefore, msgs, prefix, contextWindowTokens, maxHistoryShare) ==
    /\ tokensBefore.finite
    /\ NewContentTokens(tokensBefore.v, msgs, prefix)
         > HistoryBudget(contextWindowTokens, maxHistoryShare)

\* the dropped pass started and not awaited: the history pass starts at once
BeginDropped_NotAwaited(c, pruned) ==
    LET contextWindowTokens == resolveContextWindowTokens(c.hasModel)
        droppedChunkRatio ==
            computeAdaptiveChunkRatio(pruned.droppedMessagesList, contextWindowTokens)
        droppedMaxChunkTokens ==
            Max(1, (contextWindowTokens * droppedChunkRatio) \div 1000)
    IN IF Len(pruned.droppedMessagesList) > 0
       THEN BeginHistory(StartCall(c, "dropped",
                                   chunkMessagesByMaxTokens(pruned.droppedMessagesList,
                                                            droppedMaxChunkTokens),
                                   1, c.prep.previousSummary, CustomInstructions,
                                   droppedMaxChunkTokens, Max(1, c.prep.reserveTokens)))
       ELSE BeginHistory(c)

\* lines 630-650
BeginDropped(c, pruned) ==
    LET contextWindowTokens == resolveContextWindowTokens(c.hasModel)
        droppedChunkRatio ==
            computeAdaptiveChunkRatio(pruned.droppedMessagesList, contextWindowTokens)
        droppedMaxChunkTokens ==
            Max(1, (contextWindowTokens * droppedChunkRatio) \div 1000)
    IN IF Len(pruned.droppedMessagesList) > 0
       THEN StartCall(c, "dropped",
                      chunkMessagesByMaxTokens(pruned.droppedMessagesList,
                                               droppedMaxChunkTokens),
                      1, c.prep.previousSummary, CustomInstructions,
                      droppedMaxChunkTokens, Max(1, c.prep.reserveTokens))
       ELSE BeginHistory(c)

\* droppedSummary kept at module level: it is not reset by a new run
DeclareDroppedSummary_ModuleLevel(c) == c

\* line 605: let droppedSummary: string | undefined
DeclareDroppedSummary(c) == [c EXCEPT !.droppedSummary = Undefined]

\* the pruner is given the turn prefix along with the history
TryBlock_PrunesPrefixToo(c) ==
    LET contextWindowTokens == resolveContextWindowTokens(c.hasModel)
        maxHistoryShare ==
            IF c.runtimeShare.def THEN c.runtimeShare.v ELSE DefaultMaxHistoryShare
        c0 == [DeclareDroppedSummary(c) EXCEPT
                 !.messagesToSummarize = c.prep.messagesToSummarize]
    IN IF ShouldPrune(c.prep.tokensBefore, c.prep.messagesToSummarize,
                      c.prep.turnPrefixMessages, contextWindowTokens, maxHistoryShare)
       THEN LET pruned == pruneHistoryForContextShare(
                              c.prep.messagesToSummarize \o c.prep.turnPrefixMessages,
                              contextWindowTokens, maxHistoryShare, PruneParts)
                c1 == [c0 EXCEPT !.pruneInvoked = TRUE, !.pruned = pruned]
            IN IF pruned.droppedChunks > 0
               THEN BeginDropped([c1 EXCEPT !.messagesToSummarize = pruned.messages,
                                            !.warns = Append(@, "dropped-chunks")],
                                 pruned)
               ELSE BeginHistory(c1)
       ELSE BeginHistory(c0)

\* lines 592-661
TryBlock(c) ==
    LET contextWindowTokens == resolveContextWindowTokens(c.hasModel)
        maxHistoryShare ==
            IF c.runtimeShare.def THEN c.runtimeShare.v ELSE DefaultMaxHistoryShare
        c0 == [DeclareDroppedSummary(c) EXCEPT
                 !.messagesToSummarize = c.prep.messagesToSummarize]
    IN IF ShouldPrune(c.prep.tokensBefore, c.prep.messagesToSummarize,
                      c.prep.turnPrefixMessages, contextWindowTokens, maxHistoryShare)
       THEN LET pruned == pruneHistoryForContextShare(
                              c.prep.messagesToSummarize, contextWindowTokens,
                              maxHistoryShare, PruneParts)
                c1 == [c0 EXCEPT !.pruneInvoked = TRUE, !.pruned = pruned]
            IN IF pruned.droppedChunks > 0
               THEN BeginDropped([c1 EXCEPT !.messagesToSummarize = pruned.messages,
                                            !.warns = Append(@, "dropped-chunks")],
                                 pruned)
               ELSE BeginHistory(c1)
       ELSE BeginHistory(c0)

\* a staged run returned its summary to the handler
PassDone(c, pass, text) ==
    CASE pass = "dropped" -> AfterDropped(c, text)
      [] pass = "history" -> AfterHistory(c, text)
      [] OTHER -> AfterPrefix(c, text)

\* every catch swallows: the run goes on with the summary built so far
PassFailed_BestEffort(c, pass) ==
    CASE pass = "dropped" -> OnDroppedError(c)
      [] pass = "history" -> AfterHistory(c, TextOf(c.prior))
      [] OTHER -> AfterPrefix(c, TextOf(c.prior))

\* a staged run threw: the catch around the dropped pass (651-657), or the outer
\* catch (710-724)
PassFailed(c, pass) ==
    IF pass = "dropped" THEN OnDroppedError(c) ELSE OnSummarizationError(c)

\* ------------------------------------------------ the handler, before the try
\* lines 566-578
AfterMemories(c, memoriesSection) ==
    LET c1 == [c EXCEPT !.memoriesSection = memoriesSection,
                        !.fallbackSummary =
                            FallbackSummaryText(c.toolFailureSection,
                                                c.fileOpsSummary, memoriesSection)]
    IN IF ~c.hasModel
       THEN Return(c1, c1.fallbackSummary, "no-model")
       ELSE [c1 EXCEPT !.pc = "getKey"]

\* the missing credential is not checked: summarization goes on without it
AfterGetApiKey_NoCheck(c, outcome) ==
    LET c1 == [c EXCEPT !.credential = outcome]
    IN IF outcome \in {"key", "none"} THEN TryBlock(c1)
       ELSE [c1 EXCEPT !.pc = "thrown",
                       !.result = [NoResult EXCEPT !.kind = "thrown"],
                       !.path = "rejected"]

\* lines 580-592: getApiKey settled with a key, with nothing, or rejected (the
\* await is outside the try block, so a rejection leaves the handler)
AfterGetApiKey(c, outcome) ==
    LET c1 == [c EXCEPT !.credential = outcome]
    IN CASE outcome = "key" -> TryBlock(c1)
         [] outcome = "none" -> Return(c1, c1.fallbackSummary, "no-key")
         [] OTHER -> [c1 EXCEPT !.pc = "thrown",
                                !.result = [NoResult EXCEPT !.kind = "thrown"],
                                !.path = "rejected"]

\* processMemories, lines 400-414
ProcessMemoriesQuery(c) ==
    IF extractMemoryQuery(c.prep.messagesToSummarize \o c.prep.turnPrefixMessages)
    THEN [c EXCEPT !.pc = "memQuery", !.memLog = Append(@, "query")]
    ELSE AfterMemories(c, << >>)

\* memory processing moved after the model check: skipped when there is no model
HandlerStart_MemoriesAfterModelCheck(c) ==
    LET lists == computeFileLists(c.prep.fileOps)
        c1 == [c EXCEPT
                 !.readFiles = lists.readFiles,
                 !.modifiedFiles = lists.modifiedFiles,
                 !.fileOpsSummary =
                     formatFileOperations(lists.readFiles, lists.modifiedFiles),
                 !.toolFailureSection =
                     formatToolFailuresSection(collectToolFailures(
                         c.prep.messagesToSummarize \o c.prep.turnPrefixMessages))]
    IN IF ~MEMORY_ENABLED \/ ~c.hasModel THEN AfterMemories(c1, << >>)
       ELSE IF c.wip.def
            THEN [c1 EXCEPT !.pc = "memStore", !.memLog = Append(@, "store")]
            ELSE ProcessMemoriesQuery(c1)

\* lines 549-564 and processMemories, lines 385-398
HandlerStart(c) ==
    LET lists == computeFileLists(c.prep.fileOps)
        c1 == [c EXCEPT
                 !.readFiles = lists.readFiles,
                 !.modifiedFiles = lists.modifiedFiles,
                 !.fileOpsSummary =
                     formatFileOperations(lists.readFiles, lists.modifiedFiles),
                 !.toolFailureSection =
                     formatToolFailuresSection(collectToolFailures(
                         c.prep.messagesToSummarize \o c.prep.turnPrefixMessages))]
    IN IF ~MEMORY_ENABLED THEN AfterMemories(c1, << >>)
       ELSE IF c.wip.def
            THEN [c1 EXCEPT !.pc = "memStore", !.memLog = Append(@, "store")]
            ELSE ProcessMemoriesQuery(c1)

\* ---------------------------------------------------------------- inputs
UserMessage == [role |-> "user", tok |-> 12, fail |-> FALSE]
ToolErrorMessage == [role |-> "toolResult", tok |-> 30, fail |-> TRUE]
AssistantMessage == [role |-> "assistant", tok |-> 5, fail |-> FALSE]
MessageValues == {UserMessage, ToolErrorMessage, AssistantMessage}

SeqsUpTo(S, n) == UNION {[1..k -> S] : k \in 0..n}

TokensBeforeValues == {NotANumber, Finite(20), Finite(57), Finite(200)}
RuntimeShareValues == {NoShare, [def |-> TRUE, v |-> 300]}
FileOpsValues ==
    {[read |-> {}, edited |-> {}, written |-> {}],
     [read |-> {1, 2}, edited |-> {2}, written |-> {3}]}
PreviousSummaryValues == {Undefined, Some(<< Atom("previous-summary") >>)}

Preparations(previousSummaries) ==
    [messagesToSummarize : SeqsUpTo(MessageValues, MaxMsgs),
     turnPrefixMessages : SeqsUpTo({UserMessage}, MaxPrefix),
     isSplitTurn : BOOLEAN,
     tokensBefore : TokensBeforeValues,
     firstKeptEntryId : {"entry-7"},
     previousSummary : previousSummaries,
     reserveTokens : {16},
     fileOps : FileOpsValues]

\* ---------------------------------------------------------------- actions
\* A new invocation of the handler in a session whose last run left `old`: the
\* event and context are new; a local holds whatever its storage held until its
\* declaration runs (every local but droppedSummary is assigned where declared).
NewRun(old, prep, hasModel, share, wip) ==
    [IdleCycle(old.world) EXCEPT
        !.cycle = old.cycle + 1,
        !.prep = prep, !.hasModel = hasModel, !.runtimeShare = share, !.wip = wip,
        !.droppedSummary = old.droppedSummary]

\* extractWorkInProgress (lines 172-365) needs a user request among the messages
WipValues(prep, ids) ==
    {NoWip} \cup
    IF \E i \in 1..Len(prep.messagesToSummarize \o prep.turnPrefixMessages) :
           (prep.messagesToSummarize \o prep.turnPrefixMessages)[i].role = "user"
    THEN {[def |-> TRUE, a |-> id, b |-> 0] : id \in ids}
    ELSE {}

\* the session_before_compact event fires: the handler runs to its first await
StartWith(s, prep, hasModel, share, wip) ==
    /\ cyc' = [cyc EXCEPT ![s] =
                 HandlerStart(NewRun(cyc[s], prep, hasModel, share, wip))]
    /\ UNCHANGED << memStore, script, probe, ext >>

Start(s) ==
    /\ cyc[s].pc = "idle"
    /\ \E prep \in Preparations(PreviousSummaryValues), hasModel \in BOOLEAN,
          share \in RuntimeShareValues :
        \E wip \in WipValues(prep, {1}) :
            StartWith(s, prep, hasModel, share, wip)

\* the event's AbortSignal fires while the handler runs
Cancel(s) ==
    /\ cyc[s].pc \in {"memStore", "memQuery", "getKey", "call"}
    /\ ~cyc[s].aborted
    /\ cyc' = [cyc EXCEPT ![s].aborted = TRUE,
                          ![s].abortedAt = [pc |-> cyc[s].pc, pass |-> cyc[s].pass,
                                            k |-> cyc[s].k,
                                            n |-> Len(cyc[s].chunks)]]
    /\ UNCHANGED << memStore, script, probe, ext >>

\* storeWorkInProgressMemory's fetch settles (lines 139-153); an aborted or failed
\* request stores nothing
StoreSettles(s, ok) ==
    /\ cyc[s].pc = "memStore"
    /\ ok => ~cyc[s].aborted
    /\ memStore' = [memStore EXCEPT ![cyc[s].world] =
                       IF ok THEN @ \cup {WipMemory(cyc[s].wip)} ELSE @]
    /\ cyc' = [cyc EXCEPT ![s] = ProcessMemoriesQuery(cyc[s])]
    /\ UNCHANGED << script, probe, ext >>

StoreReturns(s) == \E ok \in BOOLEAN : StoreSettles(s, ok)

\* queryRelevantMemories's fetch settles (lines 55-67): at most `limit` of the
\* stored memories, none when the request fails or is aborted
QuerySettles(s, found) ==
    /\ cyc[s].pc = "memQuery"
    /\ found \subseteq memStore[cyc[s].world]
    /\ Cardinality(found) <= MemoryQueryLimit
    /\ cyc[s].aborted => found = {}
    /\ cyc' = [cyc EXCEPT ![s] = AfterMemories(cyc[s], formatMemoriesSection(found))]
    /\ UNCHANGED << memStore, script, probe, ext >>

QueryReturns(s) == \E found \in SUBSET memStore[cyc[s].world] : QuerySettles(s, found)

\* ctx.modelRegistry.getApiKey(model) settles (lines 580-590)
KeySettles(s, outcome) ==
    /\ cyc[s].pc = "getKey"
    /\ cyc' = [cyc EXCEPT ![s] = AfterGetApiKey(cyc[s], outcome)]
    /\ UNCHANGED << memStore, script, probe, ext >>

KeyReturns(s) == \E outcome \in {"key", "none", "rejects"} : KeySettles(s, outcome)

\* the chunks summarized independently: the next call gets the prior context of
\* the pass, not the reply
CallReturns_IndependentChunks(s) ==
    /\ cyc[s].pc = "call"
    /\ ~cyc[s].aborted
    /\ LET c == EndCall(cyc[s], "ok")
           reply == Reply(c.pass, c.k)
       IN cyc' = [cyc EXCEPT ![s] =
                    IF c.k < Len(c.chunks)
                    THEN StartCall(c, c.pass, c.chunks, c.k + 1, c.prior,
                                   c.instr, c.passMaxChunk,
                                   c.calls[Len(c.calls)].reserveTokens)
                    ELSE PassDone(c, c.pass, reply)]
    /\ UNCHANGED << memStore, script, probe, ext >>

\* the model replies to the in-flight call: the reply is the running summary; the
\* next chunk's call starts, or the staged run returns
CallReturns(s) ==
    /\ cyc[s].pc = "call"
    /\ ~cyc[s].aborted
    /\ LET c == EndCall(cyc[s], "ok")
           reply == Reply(c.pass, c.k)
       IN cyc' = [cyc EXCEPT ![s] =
                    IF c.k < Len(c.chunks)
                    THEN StartCall(c, c.pass, c.chunks, c.k + 1, Some(reply),
                                   c.instr, c.passMaxChunk,
                                   c.calls[Len(c.calls)].reserveTokens)
                    ELSE PassDone(c, c.pass, reply)]
    /\ UNCHANGED << memStore, script, probe, ext >>

\* the in-flight call fails (transport, timeout, API) or is aborted by the
\* signal: the staged run throws
CallFails(s) ==
    /\ cyc[s].pc = "call"
    /\ LET c == EndCall(cyc[s], IF cyc[s].aborted THEN "aborted" ELSE "failed")
       IN cyc' = [cyc EXCEPT ![s] = PassFailed(c, c.pass)]
    /\ UNCHANGED << memStore, script, probe, ext >>

\* ---------------------------------------------------------- specification
NoProbe == [op |-> "none"]

NoScript ==
    [messagesToSummarize |-> << >>, wip |-> NoWip, storeOk |-> FALSE,
     queryOk |-> FALSE, key |-> "none", callOk |-> FALSE]

Init ==
    /\ cyc = [s \in {1} |-> IdleCycle(1)]
    /\ memStore = [w \in {1} |-> {OldMemory}]
    /\ script = NoScript
    /\ probe = NoProbe
    /\ ext = InitialExtractor("none")

Next ==
    \/ \E s \in DOMAIN cyc : Start(s)
    \/ \E s \in DOMAIN cyc : Cancel(s)
    \/ \E s \in DOMAIN cyc : StoreReturns(s)
    \/ \E s \in DOMAIN cyc : QueryReturns(s)
    \/ \E s \in DOMAIN cyc : KeyReturns(s)
    \/ \E s \in DOMAIN cyc : CallReturns(s)
    \/ \E s \in DOMAIN cyc : CallFails(s)

Spec == Init /\ [][Next]_vars

\* ------------------------------------------------------------ vocabulary
Sessions == DOMAIN cyc
Returned(c) == c.pc = "returned"
Running(c) == c.pc \in {"memStore", "memQuery", "getKey", "call"}
AllMessages(c) == c.prep.messagesToSummarize \o c.prep.turnPrefixMessages
SectionKinds == {"tool-failures", "read-files", "modified-files", "retrieved-memories"}

\* the auxiliary sections of a cycle, from its inputs and the memories retrieved
ToolFailuresOf(c) == formatToolFailuresSection(collectToolFailures(AllMessages(c)))
FileOpsOf(c) ==
    formatFileOperations(computeFileLists(c.prep.fileOps).readFiles,
                         computeFileLists(c.prep.fileOps).modifiedFiles)
SectionsOf(c) == ToolFailuresOf(c) \o FileOpsOf(c) \o c.memoriesSection

CallsOf(c, passes) == {i \in 1..Len(c.calls) : c.calls[i].pass \in passes}
FailedIn(c, passes) ==
    \E i \in CallsOf(c, passes) : c.calls[i].status \in {"failed", "aborted"}
HasReply(text) == \E i \in 1..Len(text) : text[i].t = "reply"
PassRank(pass) == CASE pass = "dropped" -> 1 [] pass = "history" -> 2 [] OTHER -> 3


\* ------------------------------------ two cycles in sequence, in two worlds
\* Two runs of the same program side by side, each with a memory service of its
\* own (world 1, world 2). In each, the session compacts twice: cycle 1 with any
\* event and any replies; cycle 2 with the event and the replies of `script`,
\* the same in both worlds, and cycle 1's summary threaded as previousSummary.
Worlds == {1, 2}

Scripts ==
    {sc \in [messagesToSummarize : {<< >>, << UserMessage >>},
             wip : {NoWip, [def |-> TRUE, a |-> 2, b |-> 0]},
             storeOk : BOOLEAN, queryOk : BOOLEAN,
             key : {"key", "none", "rejects"}, callOk : BOOLEAN] :
        /\ sc.wip.def => sc.messagesToSummarize # << >>
        /\ sc.storeOk => sc.wip.def}

Finished(c) == c.pc \in {"returned", "thrown"}

\* world 1 runs first, world 2 after it
Turn(s) ==
    \/ s = 1
    \/ cyc[1].cycle = 2 /\ Finished(cyc[1])
    \/ cyc[1].cycle = 1 /\ cyc[1].pc = "thrown"

FirstPreparations ==
    {prep \in Preparations({Undefined}) :
        /\ prep.messagesToSummarize
             \in {<< UserMessage, UserMessage >>,
                  << UserMessage, UserMessage, UserMessage >>}
        /\ prep.turnPrefixMessages = << >>
        /\ ~prep.isSplitTurn
        /\ prep.tokensBefore = Finite(200)
        /\ prep.fileOps.read = {}}

\* cycle 1: the event fires for the first time in the session
StartFirst(s) ==
    /\ cyc[s].pc = "idle"
    /\ \E prep \in FirstPreparations :
        \E wip \in WipValues(prep, {1}) :
            StartWith(s, prep, TRUE, [def |-> TRUE, v |-> 300], wip)

\* cycle 2's event: the session threads cycle 1's summary as previousSummary
SecondPreparation(c, messagesToSummarize) ==
    [messagesToSummarize |-> messagesToSummarize, turnPrefixMessages |-> << >>,
     isSplitTurn |-> FALSE, tokensBefore |-> Finite(20),
     firstKeptEntryId |-> "entry-7",
     previousSummary |-> Some(c.result.summary),
     reserveTokens |-> 16,
     fileOps |-> [read |-> {}, edited |-> {}, written |-> {}]]

\* cycle 2: the event fires again after cycle 1 returned its artifact
StartSecond(s) ==
    /\ cyc[s].cycle = 1
    /\ Returned(cyc[s])
    /\ StartWith(s, SecondPreparation(cyc[s], script.messagesToSummarize),
                 TRUE, NoShare, script.wip)

StoreStep(s) ==
    IF cyc[s].cycle = 1 THEN StoreReturns(s) ELSE StoreSettles(s, script.storeOk)

\* in cycle 2 the memory service answers with what it holds, or fails
QueryStep(s) ==
    IF cyc[s].cycle = 1 THEN QueryReturns(s)
    ELSE QuerySettles(s, IF script.queryOk THEN memStore[cyc[s].world] ELSE {})

KeyStep(s) ==
    IF cyc[s].cycle = 1 THEN KeyReturns(s) ELSE KeySettles(s, script.key)

CallStep(s) ==
    IF cyc[s].cycle = 1 THEN CallReturns(s) \/ CallFails(s)
    ELSE IF script.callOk THEN CallReturns(s) ELSE CallFails(s)

InitSeq ==
    /\ cyc = [s \in Worlds |-> IdleCycle(s)]
    /\ memStore = [w \in Worlds |-> {OldMemory}]
    /\ script \in Scripts
    /\ probe = NoProbe
    /\ ext = InitialExtractor("none")

NextSeq ==
    \/ \E s \in DOMAIN cyc : Turn(s) /\ StartFirst(s)
    \/ \E s \in DOMAIN cyc : Turn(s) /\ StartSecond(s)
    \/ \E s \in DOMAIN cyc : Turn(s) /\ StoreStep(s)
    \/ \E s \in DOMAIN cyc : Turn(s) /\ QueryStep(s)
    \/ \E s \in DOMAIN cyc : Turn(s) /\ KeyStep(s)
    \/ \E s \in DOMAIN cyc : Turn(s) /\ CallStep(s)

SpecSeq == InitSeq /\ [][NextSeq]_vars


\* ------------------------------------ two sessions interleaved, one alone
\* Sessions 1 and 2 compact at the same time in one process, against the one
\* memory service of world 1; session 3 is session 2 run alone, in world 2,
\* with the event and the replies of `script` that session 2 gets. Session 1
\* gets any event and any replies, and can be cancelled.
PairSessions == {1, 2, 3}
WorldOf(s) == IF s = 3 THEN 2 ELSE 1

\* the event of sessions 2 and 3
ScriptedPreparation(messagesToSummarize) ==
    [messagesToSummarize |-> messagesToSummarize, turnPrefixMessages |-> << >>,
     isSplitTurn |-> FALSE, tokensBefore |-> Finite(20),
     firstKeptEntryId |-> "entry-7", previousSummary |-> Undefined,
     reserveTokens |-> 16,
     fileOps |-> [read |-> {}, edited |-> {}, written |-> {}]]

\* session 3 runs once session 2 is through
PairTurn(s) == s # 3 \/ Finished(cyc[2])

StartScripted(s) ==
    /\ cyc[s].pc = "idle"
    /\ StartWith(s, ScriptedPreparation(script.messagesToSummarize),
                 TRUE, NoShare, script.wip)

PairStart(s) == IF s = 1 THEN StartFirst(s) ELSE StartScripted(s)

PairCancel(s) == s = 1 /\ Cancel(s)

PairStore(s) ==
    IF s = 1 THEN StoreReturns(s) ELSE StoreSettles(s, script.storeOk)

PairQuery(s) ==
    IF s = 1 THEN QueryReturns(s)
    ELSE QuerySettles(s, IF script.queryOk THEN memStore[cyc[s].world] ELSE {})

PairKey(s) == IF s = 1 THEN KeyReturns(s) ELSE KeySettles(s, script.key)

PairCall(s) ==
    IF s = 1 THEN CallReturns(s) \/ CallFails(s)
    ELSE IF script.callOk THEN CallReturns(s) ELSE CallFails(s)

\* the steps of session s
PairStep(s) ==
    PairStart(s) \/ PairStore(s) \/ PairQuery(s) \/ PairKey(s) \/ PairCall(s)

InitPair ==
    /\ cyc = [s \in PairSessions |-> IdleCycle(WorldOf(s))]
    /\ memStore = [w \in Worlds |-> {OldMemory}]
    /\ script \in Scripts
    /\ probe = NoProbe
    /\ ext = InitialExtractor("none")

NextPair ==
    \/ \E s \in DOMAIN cyc : PairTurn(s) /\ PairStart(s)
    \/ \E s \in DOMAIN cyc : PairTurn(s) /\ PairCancel(s)
    \/ \E s \in DOMAIN cyc : PairTurn(s) /\ PairStore(s)
    \/ \E s \in DOMAIN cyc : PairTurn(s) /\ PairQuery(s)
    \/ \E s \in DOMAIN cyc : PairTurn(s) /\ PairKey(s)
    \/ \E s \in DOMAIN cyc : PairTurn(s) /\ PairCall(s)

SpecPair == InitPair /\ [][NextPair]_vars


\* ------------------------------------ the pure functions, called directly
\* The arguments are drawn from the sets below; a step calls one of the pure
\* components on them and records the arguments and the result.
TokenValues == {5, 12, 30, 1000, 2000}
ProbeMessages == {[role |-> "user", tok |-> t, fail |-> FALSE] : t \in TokenValues}
ProbeSeqs == SeqsUpTo(ProbeMessages, MaxProbeLen)
ContextWindowValues == {100, 6667, 10000}
ShareValues == {300, 500, 1000}
PartsValues == {2, 3}

\* the arguments of one call
ProbeArgs ==
    [op : {"args"}, messages : ProbeSeqs, contextWindow : ContextWindowValues,
     maxHistoryShare : ShareValues, parts : PartsValues]

CallPrune ==
    /\ probe.op = "args"
    /\ probe' = [op |-> "prune", messages |-> probe.messages,
                 maxContextTokens |-> probe.contextWindow,
                 maxHistoryShare |-> probe.maxHistoryShare, parts |-> probe.parts,
                 groups |-> splitMessagesByTokenShare(probe.messages, probe.parts),
                 out |-> pruneHistoryForContextShare(
                             probe.messages, probe.contextWindow,
                             probe.maxHistoryShare, probe.parts)]
    /\ UNCHANGED << cyc, memStore, script, ext >>

\* line 611
CallBudget ==
    /\ probe.op = "args"
    /\ probe' = [op |-> "budget", contextWindowTokens |-> probe.contextWindow,
                 maxHistoryShare |-> probe.maxHistoryShare,
                 out |-> HistoryBudget(probe.contextWindow, probe.maxHistoryShare)]
    /\ UNCHANGED << cyc, memStore, script, ext >>

CallRatio ==
    /\ probe.op = "args"
    /\ probe' = [op |-> "ratio", messages |-> probe.messages,
                 contextWindow |-> probe.contextWindow,
                 out |-> computeAdaptiveChunkRatio(probe.messages,
                                                   probe.contextWindow)]
    /\ UNCHANGED << cyc, memStore, script, ext >>

\* the chunk ceiling as the handler derives it (lines 664-665), and the chunks
CallChunks ==
    /\ probe.op = "args"
    /\ LET ratio == computeAdaptiveChunkRatio(probe.messages, probe.contextWindow)
           maxChunkTokens == Max(1, (probe.contextWindow * ratio) \div 1000)
       IN probe' = [op |-> "chunks", messages |-> probe.messages,
                    maxChunkTokens |-> maxChunkTokens,
                    out |-> chunkMessagesByMaxTokens(probe.messages, maxChunkTokens)]
    /\ UNCHANGED << cyc, memStore, script, ext >>

InitPure ==
    /\ cyc = [s \in {1} |-> IdleCycle(1)]
    /\ memStore = [w \in {1} |-> {OldMemory}]
    /\ script = NoScript
    /\ probe \in ProbeArgs
    /\ ext = InitialExtractor("none")

NextPure ==
    \/ CallPrune
    \/ CallBudget
    \/ CallRatio
    \/ CallChunks

SpecPure == InitPure /\ [][NextPure]_vars


\* --------------------------- the memory extractor beside a compaction cycle
\* One process: the sessions of ExtSessions emit turn_end and input events to
\* the memory extractor, whose runs talk to the model and to the memory service
\* of world 1; session 1 also compacts once, with the event and the replies of
\* `script`, against the same memory service.
ExtSessions == {1, 2}

ExtScripts ==
    {sc \in Scripts :
        /\ sc.messagesToSummarize # << >> /\ sc.wip.def
        /\ sc.storeOk /\ sc.queryOk /\ sc.key = "key"}

ModelReplies == {"ok", "notOk", "rejects", "unparsable", "empty"}
StoreReplies == {"ok", "notOk", "rejects"}

RunsAt(e, pcs) == {i \in 1..Len(e.runs) : e.runs[i].pc \in pcs}
InFlight(e) == RunsAt(e, {"model", "store"})

TurnEnd(s) ==
    /\ ext._turnCount < MaxTurns
    /\ \E hasText \in BOOLEAN : ext' = turn_end(ext, s, hasText)
    /\ UNCHANGED << cyc, memStore, script, probe >>

Input(s) ==
    /\ ext.inputs < MaxInputs
    /\ \E accepted \in BOOLEAN : ext' = input(ext, s, accepted)
    /\ UNCHANGED << cyc, memStore, script, probe >>

ModelReplyArrives(i) ==
    /\ ext.runs[i].pc = "model"
    /\ \E reply \in ModelReplies :
          ext' = [AfterModel(ext, i, reply) EXCEPT
                    !.lastEvent = [kind |-> "reply", session |-> 0]]
    /\ UNCHANGED << cyc, memStore, script, probe >>

StoreReplyArrives(i) ==
    /\ ext.runs[i].pc = "store"
    /\ \E reply \in StoreReplies :
          /\ ext' = [AfterStore(ext, i, reply) EXCEPT
                       !.lastEvent = [kind |-> "reply", session |-> 0]]
          /\ memStore' = [memStore EXCEPT ![1] =
                             IF reply = "ok" THEN @ \cup {ExtractionMemory} ELSE @]
    /\ UNCHANGED << cyc, script, probe >>

CycleStarts(s) == StartScripted(s)
CycleStore(s) == StoreSettles(s, script.storeOk)
CycleQuery(s) ==
    QuerySettles(s, IF script.queryOk THEN memStore[cyc[s].world] ELSE {})
CycleKey(s) == KeySettles(s, script.key)
CycleCall(s) == IF script.callOk THEN CallReturns(s) ELSE CallFails(s)
CycleStep(s) ==
    CycleStarts(s) \/ CycleStore(s) \/ CycleQuery(s) \/ CycleKey(s) \/ CycleCall(s)

InitExt ==
    /\ cyc = [s \in {1} |-> IdleCycle(1)]
    /\ memStore = [w \in {1} |-> {OldMemory}]
    /\ script \in ExtScripts
    /\ probe = NoProbe
    /\ \E apiKey \in ApiKeys : ext = InitialExtractor(apiKey)

NextExt ==
    \/ \E s \in ExtSessions : TurnEnd(s)
    \/ \E s \in ExtSessions : Input(s)
    \/ \E i \in DOMAIN ext.runs : ModelReplyArrives(i)
    \/ \E i \in DOMAIN ext.runs : StoreReplyArrives(i)
    \/ \E s \in DOMAIN cyc : CycleStarts(s)
    \/ \E s \in DOMAIN cyc : CycleStore(s)
    \/ \E s \in DOMAIN cyc : CycleQuery(s)
    \/ \E s \in DOMAIN cyc : CycleKey(s)
    \/ \E s \in DOMAIN cyc : CycleCall(s)

SpecExt == InitExt /\ [][NextExt]_vars


\* ------------------------------------------- the message buffer filling up
\* The extractor alone, with no usable key (every run ends before its first
\* await), over enough turn_end and input events to fill the buffer past
\* MAX_CONTEXT_MESSAGES. Turns without text outnumber the accepted inputs by at
\* most MaxEmptyTurns.
BufTurnEnd(s) ==
    /\ ext._turnCount < MaxBufTurns
    /\ \E hasText \in BOOLEAN :
          /\ hasText \/ ext._turnCount - ext.arrivals < MaxEmptyTurns
          /\ ext' = turn_end(ext, s, hasText)
    /\ UNCHANGED << cyc, memStore, script, probe >>

InitBuf ==
    /\ cyc = [s \in {1} |-> IdleCycle(1)]
    /\ memStore = [w \in {1} |-> {OldMemory}]
    /\ script = NoScript
    /\ probe = NoProbe
    /\ ext = InitialExtractor("none")

NextBuf ==
    \/ \E s \in ExtSessions : BufTurnEnd(s)
    \/ \E s \in ExtSessions : Input(s)

SpecBuf == InitBuf /\ [][NextBuf]_vars

\* ------------------------------------------------------------------ C1
\* C1: whatever the injected capabilities do, the handler ends by returning a
\* compaction artifact and never by throwing (rejecting) to its caller.
C1_NeverFailsOutwardly ==
    \A s \in Sessions : cyc[s].result.kind # "thrown"

\* ------------------------------------------------------------------ C2
\* C2: when a model call of the retained-history pass or of the turn-prefix pass
\* failed, the returned summary is exactly the fallback text followed by the
\* auxiliary sections, and holds no reply of an earlier successful call.
C2_FailedPassGivesFallback ==
    \A s \in Sessions :
        (Returned(cyc[s]) /\ FailedIn(cyc[s], {"history", "prefix"}))
        => /\ cyc[s].result.summary = FALLBACK_SUMMARY \o SectionsOf(cyc[s])
           /\ ~HasReply(cyc[s].result.summary)

\* a 3-chunk history run whose first two calls succeeded and whose third failed
C2_Witness ==
    \E s \in Sessions :
        /\ Returned(cyc[s])
        /\ \E i \in CallsOf(cyc[s], {"history"}) :
            /\ cyc[s].calls[i].n = 3 /\ cyc[s].calls[i].k = 3
            /\ cyc[s].calls[i].status = "failed"
            /\ cyc[s].calls[i - 1].status = "ok"

\* ------------------------------------------------------------------ C3
\* C3: a failed dropped-history pass is swallowed: the next model call is the first
\* call of the retained-history pass, with the original previousSummary as prior
\* context, and a cycle that went to the fallback had a failure in the history or
\* prefix pass.
C3_DroppedFailureSwallowed ==
    \A s \in Sessions :
        /\ \A i \in CallsOf(cyc[s], {"dropped"}) :
              cyc[s].calls[i].status \in {"failed", "aborted"}
              => /\ Len(cyc[s].calls) > i
                 /\ cyc[s].calls[i + 1].pass = "history"
                 /\ cyc[s].calls[i + 1].k = 1
                 /\ cyc[s].calls[i + 1].prior = cyc[s].prep.previousSummary
        /\ (Returned(cyc[s]) /\ cyc[s].path = "fallback")
              => FailedIn(cyc[s], {"history", "prefix"})

\* the dropped pass failed and the cycle still returned its history summary
C3_Witness ==
    \E s \in Sessions :
        /\ Returned(cyc[s]) /\ cyc[s].path = "success"
        /\ cyc[s].prep.previousSummary.def
        /\ \E i \in CallsOf(cyc[s], {"dropped"}) : cyc[s].calls[i].status = "failed"

\* ------------------------------------------------------------------ C4
\* C4: the model calls of a cycle are ordered dropped pass, history pass, prefix
\* pass, and a call starts only when every earlier call has settled.
C4_PassesInOrder ==
    \A s \in Sessions :
        \A i, j \in 1..Len(cyc[s].calls) :
            i < j => /\ PassRank(cyc[s].calls[i].pass) <= PassRank(cyc[s].calls[j].pass)
                     /\ cyc[s].calls[i].status # "inflight"

\* a cycle that ran all three passes
C4_Witness ==
    \E s \in Sessions :
        /\ Returned(cyc[s]) /\ cyc[s].path = "success"
        /\ CallsOf(cyc[s], {"dropped"}) # {}
        /\ CallsOf(cyc[s], {"history"}) # {}
        /\ CallsOf(cyc[s], {"prefix"}) # {}

\* ------------------------------------------------------------------ C5
\* C5: every returned summary is a body holding no section, followed by the
\* tool-failure section, then the file-operations section, then the
\* retrieved-memories section.
C5_SectionsInFixedOrder ==
    \A s \in Sessions :
        Returned(cyc[s])
        => LET summary == cyc[s].result.summary
               sections == SectionsOf(cyc[s])
               n == Len(summary) - Len(sections)
           IN /\ n >= 0
              /\ SubSeq(summary, n + 1, Len(summary)) = sections
              /\ \A i \in 1..n : summary[i].t \notin SectionKinds

\* a successful cycle with all sections present
C5_Witness ==
    \E s \in Sessions :
        /\ Returned(cyc[s]) /\ cyc[s].path = "success"
        /\ ToolFailuresOf(cyc[s]) # << >>
        /\ Len(FileOpsOf(cyc[s])) = 2
        /\ cyc[s].memoriesSection # << >>

\* ------------------------------------------------------------------ C6
\* C6: with no model, or no credential for it, the cycle makes no model call and
\* does not prune, returns the fallback text plus the auxiliary sections, and
\* reports nothing (no warning, no throw).
C6_NoCredentialSkipsSummarization ==
    \A s \in Sessions :
        (Returned(cyc[s]) /\ (~cyc[s].hasModel \/ cyc[s].credential = "none"))
        => /\ cyc[s].calls = << >>
           /\ ~cyc[s].pruneInvoked
           /\ cyc[s].result.kind = "artifact"
           /\ cyc[s].result.summary = FALLBACK_SUMMARY \o SectionsOf(cyc[s])
           /\ cyc[s].warns = << >>

\* the resolver gave no credential for a cycle that had history over budget
C6_Witness ==
    \E s \in Sessions :
        /\ Returned(cyc[s]) /\ cyc[s].hasModel /\ cyc[s].credential = "none"
        /\ Len(cyc[s].prep.messagesToSummarize) = MaxMsgs
        /\ ShouldPrune(cyc[s].prep.tokensBefore, cyc[s].prep.messagesToSummarize,
                       cyc[s].prep.turnPrefixMessages, DefaultContextWindow,
                       DefaultMaxHistoryShare)

\* ------------------------------------------------------------------ C7
\* C7: every returned artifact carries the preparation's firstKeptEntryId and
\* tokensBefore unchanged and the file lists of its file operations.
C7_PassThroughFields ==
    \A s \in Sessions :
        Returned(cyc[s])
        => /\ cyc[s].result.firstKeptEntryId = cyc[s].prep.firstKeptEntryId
           /\ cyc[s].result.tokensBefore = cyc[s].prep.tokensBefore
           /\ cyc[s].result.details = computeFileLists(cyc[s].prep.fileOps)

\* a successful cycle that pruned, with a non-finite tokensBefore elsewhere
C7_Witness ==
    \E s \in Sessions :
        /\ Returned(cyc[s]) /\ cyc[s].path = "success"
        /\ cyc[s].pruned.droppedChunks > 0
        /\ cyc[s].result.tokensBefore = Finite(200)
        /\ cyc[s].result.details.modifiedFiles = << 2, 3 >>

\* ------------------------------------------------------------------ C8
\* C8: when the signal fires during the second call of a 3-chunk staged run, that
\* call is aborted and never succeeds, no third call of that run is made, and a
\* cycle that returns returns the fallback.
C8_CancelDuringSecondChunk ==
    \A s \in Sessions :
        (cyc[s].abortedAt.pc = "call" /\ cyc[s].abortedAt.k = 2
            /\ cyc[s].abortedAt.n = 3)
        => /\ \A i \in CallsOf(cyc[s], {cyc[s].abortedAt.pass}) :
                /\ cyc[s].calls[i].k # 3
                /\ cyc[s].calls[i].k = 2
                     => cyc[s].calls[i].status \in {"inflight", "aborted"}
           /\ Returned(cyc[s])
                => /\ cyc[s].path = "fallback"
                   /\ cyc[s].result.summary = FALLBACK_SUMMARY \o SectionsOf(cyc[s])

\* the cycle returned after such a cancellation
C8_Witness ==
    \E s \in Sessions :
        /\ Returned(cyc[s])
        /\ cyc[s].abortedAt = [pc |-> "call", pass |-> "history", k |-> 2, n |-> 3]
        /\ cyc[s].calls[Len(cyc[s].calls)].status = "aborted"

\* ------------------------------------------------------------------ C9
\* C9: a cycle that has stopped running has reached Done or EmergencyFallback,
\* both of which hold an artifact.
C9_EndsInDoneOrFallback ==
    \A s \in Sessions :
        (cyc[s].pc # "idle" /\ ~Running(cyc[s]))
        => /\ cyc[s].path \in {"success", "fallback", "no-model", "no-key"}
           /\ cyc[s].result.kind = "artifact"

\* ------------------------------------------------------------------ C10
\* the summary of a finished cycle without its own retrieved-memories section
\* (the last of the appended sections)
BodyOf(c) ==
    SubSeq(c.result.summary, 1, Len(c.result.summary) - Len(c.memoriesSection))

\* both worlds finished cycle 2, which got the same event (messages, threaded
\* previousSummary, settings) and, by the script, the same replies
SameSecondCycle ==
    /\ \A s \in Worlds : cyc[s].cycle = 2 /\ Finished(cyc[s])
    /\ cyc[1].prep = cyc[2].prep
    /\ cyc[1].wip = cyc[2].wip

InterleavedAndAlone ==
    /\ DOMAIN cyc = PairSessions
    /\ Finished(cyc[2])
    /\ Finished(cyc[3])

Pruned == probe.op = "prune"

\* C12: the pruner's result reconstructs its input in the original order, the
\* dropped (oldest) messages first and the retained ones after them: no message
\* is lost, duplicated or reordered; droppedMessages is the length of
\* droppedMessagesList; and with droppedChunks = 0 nothing is dropped.
C12_PruneReconstructsInput ==
    Pruned =>
        /\ probe.out.droppedMessagesList \o probe.out.messages = probe.messages
        /\ probe.out.droppedMessages = Len(probe.out.droppedMessagesList)
        /\ probe.out.droppedChunks = 0 => probe.out.droppedMessagesList = << >>

\* a pruning that dropped one group of two messages and retained two messages
C12_Witness ==
    /\ Pruned
    /\ probe.out.droppedChunks = 1
    /\ probe.out.droppedMessages = 2
    /\ Len(probe.out.messages) = 2
    /\ probe.out.droppedMessagesList # probe.out.messages

\* ------------------------------------------------------------------ C13
PruneBudget == MaxHistoryTokens(probe.maxContextTokens, probe.maxHistoryShare)

\* C13 as stated: whenever a group was droppable (the input split into more than
\* one group) the retained messages are within maxHistoryTokens, and otherwise
\* the retained messages are the input.
C13_RetainedWithinBudget ==
    Pruned =>
        IF Len(probe.groups) > 1
        THEN estimateMessagesTokens(probe.out.messages) <= PruneBudget
        ELSE probe.out.messages = probe.messages

\* C13 amended: the retained messages are within maxHistoryTokens or are the
\* newest group alone (which is retained even when it exceeds the budget); when
\* the input is within the budget or is a single group, the retained messages
\* are the input.
C13_RetainedWithinBudgetOrNewestGroup ==
    Pruned =>
        /\ \/ estimateMessagesTokens(probe.out.messages) <= PruneBudget
           \/ /\ Len(probe.groups) > 0
              /\ probe.out.messages = probe.groups[Len(probe.groups)]
        /\ (Len(probe.groups) <= 1
              \/ estimateMessagesTokens(probe.messages) <= PruneBudget)
             => probe.out.messages = probe.messages

\* of three groups over the budget, the oldest was dropped and the two others,
\* within the budget, were retained
C13_Witness ==
    /\ Pruned
    /\ Len(probe.groups) = 3
    /\ estimateMessagesTokens(probe.messages) > PruneBudget
    /\ probe.out.droppedChunks = 1
    /\ estimateMessagesTokens(probe.out.messages) <= PruneBudget

\* ------------------------------------------------------------------ C14
\* the groups from the k-th on, and the groups before it
GroupsFrom(k) == Flatten(SubSeq(probe.groups, k, Len(probe.groups)))
GroupsBefore(k) == Flatten(SubSeq(probe.groups, 1, k - 1))

\* C14: the pruner drops whole groups only, from the oldest end, one at a time
\* (a group is dropped only while what is left of the input is over the budget),
\* and for a non-empty input it never drops the newest group: the retained
\* messages end with it, even when it alone exceeds maxHistoryTokens.
C14_DropsOldestGroupsNeverNewest ==
    Pruned /\ probe.messages # << >> =>
        \E k \in 1..Len(probe.groups) :
            /\ probe.out.droppedChunks = k - 1
            /\ probe.out.droppedMessagesList = GroupsBefore(k)
            /\ probe.out.messages = GroupsFrom(k)
            /\ \A j \in 1..(k - 1) : estimateMessagesTokens(GroupsFrom(j)) > PruneBudget
            /\ k < Len(probe.groups) => estimateMessagesTokens(GroupsFrom(k)) <= PruneBudget

\* every group but the newest was dropped, and the newest, alone over the
\* budget, was retained
C14_Witness ==
    /\ Pruned
    /\ Len(probe.groups) = 3
    /\ probe.out.droppedChunks = 2
    /\ probe.out.messages = probe.groups[3]
    /\ estimateMessagesTokens(probe.out.messages) > PruneBudget

\* ------------------------------------------------------------------ C15
\* the scenario: three groups of 2000 tokens each against a budget of 3000
ThreeGroupsOf2000 ==
    /\ Pruned
    /\ Len(probe.groups) = 3
    /\ \A i \in 1..3 : estimateMessagesTokens(probe.groups[i]) = 2000
    /\ PruneBudget = 3000

\* C15: with three history groups of 2000 tokens each and maxHistoryTokens =
\* 3000, pruning drops exactly the two oldest groups, retains only the newest
\* one, and reports droppedChunks = 2 and droppedMessages = the number of
\* messages of the two dropped groups.
C15_DropsTwoOldestOfThree ==
    ThreeGroupsOf2000 =>
        /\ probe.out.messages = probe.groups[3]
        /\ probe.out.droppedMessagesList = probe.groups[1] \o probe.groups[2]
        /\ probe.out.droppedChunks = 2
        /\ probe.out.droppedMessages = Len(probe.groups[1]) + Len(probe.groups[2])

\* the scenario with an oldest group of two messages: three messages dropped in
\* two groups
C15_Witness ==
    /\ ThreeGroupsOf2000
    /\ Len(probe.groups[1]) = 2
    /\ probe.out.droppedMessages = 3

\* ------------------------------------------------------------------ C16
\* C16: maxHistoryTokens is floor(contextWindowTokens * maxHistoryShare *
\* SAFETY_MARGIN) with SAFETY_MARGIN below 1.0 (shares and margin in thousandths,
\* here whole tenths), so it never exceeds contextWindowTokens * maxHistoryShare;
\* for a window of 10,000 tokens, share 0.5 and margin 0.9 it is 4500.
C16_MaxHistoryTokens ==
    probe.op = "budget" =>
        /\ SAFETY_MARGIN < 1000
        /\ probe.out = (probe.contextWindowTokens * (probe.maxHistoryShare \div 100)
                          * (SAFETY_MARGIN \div 100)) \div 100
        /\ probe.out * 1000 <= probe.contextWindowTokens * probe.maxHistoryShare
        /\ (probe.contextWindowTokens = 10000 /\ probe.maxHistoryShare = 500
              /\ SAFETY_MARGIN = 900) => probe.out = 4500

\* the budget computed for a window of 10,000 tokens and share 0.5
C16_Witness ==
    /\ probe.op = "budget"
    /\ probe.contextWindowTokens = 10000
    /\ probe.maxHistoryShare = 500
    /\ probe.out = 4500

\* ------------------------------------------------------------------ C17
\* the average estimated size of a message, in thousandths of the window
AvgRatio ==
    (estimateMessagesTokens(probe.messages) * 1000)
        \div (Len(probe.messages) * probe.contextWindow)

HistoryPassOver(c) ==
    \/ Returned(c) /\ c.path = "success"
    \/ CallsOf(c, {"prefix"}) # {}

\* C18: the staged summarizer called on an empty message list makes no model
\* call and returns previousSummary as it is (the empty text when there is
\* none): a cycle whose retained history is empty makes no call of the history
\* pass and has the prior summary as its history summary.
C18_EmptyHistoryReturnsPreviousSummary ==
    \A s \in Sessions :
        (cyc[s].credential = "key" /\ cyc[s].messagesToSummarize = << >>) =>
            /\ CallsOf(cyc[s], {"history"}) = {}
            /\ HistoryPassOver(cyc[s])
                 => cyc[s].historySummary = TextOf(cyc[s].prep.previousSummary)
            /\ (Returned(cyc[s]) /\ cyc[s].path = "success"
                  /\ CallsOf(cyc[s], {"prefix"}) = {})
                 => cyc[s].result.summary
                      = TextOf(cyc[s].prep.previousSummary) \o SectionsOf(cyc[s])

\* a cycle with no retained history and a previous summary went on to the prefix
\* pass and returned
C18_Witness ==
    \E s \in Sessions :
        /\ cyc[s].credential = "key" /\ cyc[s].messagesToSummarize = << >>
        /\ cyc[s].prep.previousSummary.def
        /\ Returned(cyc[s]) /\ cyc[s].path = "success"
        /\ CallsOf(cyc[s], {"prefix"}) # {}
        /\ cyc[s].historySummary = cyc[s].prep.previousSummary.txt

\* ------------------------------------------------------------------ C19
NoOversizedMessage ==
    \A i \in 1..Len(probe.messages) :
        ~isOversizedForSummary(probe.messages[i], probe.maxChunkTokens)

\* C19: for a message sequence without an oversized message, the chunks are
\* non-empty runs of whole messages that, concatenated in order, are the
\* original sequence (contiguous, no gap, no overlap, nothing reordered), and
\* each chunk's estimated cost is at most maxChunkTokens.
C19_ChunksPartitionInOrder ==
    (probe.op = "chunks" /\ NoOversizedMessage) =>
        /\ Flatten(probe.out) = probe.messages
        /\ \A i \in 1..Len(probe.out) :
              /\ probe.out[i] # << >>
              /\ estimateMessagesTokens(probe.out[i]) <= probe.maxChunkTokens

\* four messages, none oversized, partitioned into several chunks, one of them
\* of more than one message
C19_Witness ==
    /\ probe.op = "chunks" /\ NoOversizedMessage
    /\ Len(probe.messages) = 4
    /\ Len(probe.out) >= 2
    /\ \E i \in 1..Len(probe.out) : Len(probe.out[i]) >= 2

\* ------------------------------------------------------------------ C20
\* the previousSummary a pass of the cycle is started with
PassPreviousSummary(c, pass) ==
    CASE pass = "dropped" -> c.prep.previousSummary
      [] pass = "history" ->
            EffectivePreviousSummary(c.droppedSummary, c.prep.previousSummary)
      [] OTHER -> Undefined

\* C20: staged summarization is a sequential left fold. At most one model call
\* of a cycle is in flight; the call for chunk k of a pass follows the returned
\* call for chunk k-1 and has exactly its reply as prior context (the pass's
\* previousSummary for k = 1); and the result of the pass is the reply of the
\* call for its last chunk.
C20_SequentialLeftFold ==
    \A s \in Sessions :
        \A i \in 1..Len(cyc[s].calls) :
            LET call == cyc[s].calls[i]
            IN /\ i < Len(cyc[s].calls) => call.status # "inflight"
               /\ call.k = 1 => call.prior = PassPreviousSummary(cyc[s], call.pass)
               /\ call.k > 1 =>
                    /\ i > 1
                    /\ cyc[s].calls[i - 1].pass = call.pass
                    /\ cyc[s].calls[i - 1].k = call.k - 1
                    /\ cyc[s].calls[i - 1].status = "ok"
                    /\ call.prior = Some(Reply(call.pass, call.k - 1))
               /\ (call.status = "ok" /\ call.k < call.n) =>
                    /\ i < Len(cyc[s].calls)
                    /\ cyc[s].calls[i + 1].pass = call.pass
                    /\ cyc[s].calls[i + 1].k = call.k + 1
               /\ (call.status = "ok" /\ call.k = call.n) =>
                    CASE call.pass = "dropped" ->
                            cyc[s].droppedSummary = Some(Reply("dropped", call.n))
                      [] call.pass = "history" ->
                            cyc[s].historySummary = Reply("history", call.n)
                      [] OTHER ->
                            cyc[s].result.summary
                              = JoinSplitTurn(cyc[s].historySummary,
                                              Reply("prefix", call.n))
                                  \o SectionsOf(cyc[s])

\* a history pass of three chunks, folded call after call, returned its summary
C20_Witness ==
    \E s \in Sessions :
        /\ Returned(cyc[s]) /\ cyc[s].path = "success"
        /\ \E i \in CallsOf(cyc[s], {"history"}) :
              /\ cyc[s].calls[i].k = 3 /\ cyc[s].calls[i].n = 3
              /\ cyc[s].calls[i].status = "ok"
              /\ cyc[s].calls[i].prior = Some(Reply("history", 2))

\* ------------------------------------------------------------------ C21
\* the messages of the call that alone exceed the chunk ceiling
OversizedMessages ==
    {i \in 1..Len(probe.messages) :
        isOversizedForSummary(probe.messages[i], probe.maxChunkTokens)}

BudgetComputed(c) == c.credential = "key"

\* the estimated new-content tokens of the cycle's event (tokensBefore finite)
NewContentOf(c) ==
    LET rest == c.prep.tokensBefore.v
                  - estimateMessagesTokens(c.prep.messagesToSummarize)
                  - estimateMessagesTokens(c.prep.turnPrefixMessages)
    IN IF rest > 0 THEN rest ELSE 0

\* maxHistoryTokens of the cycle
MaxHistoryTokensOf(c) ==
    MaxHistoryTokens(resolveContextWindowTokens(c.hasModel),
                     IF c.runtimeShare.def THEN c.runtimeShare.v
                     ELSE DefaultMaxHistoryShare)

\* C23: the pruner is invoked in a cycle exactly when tokensBefore is a finite
\* number and the new-content tokens, max(0, tokensBefore - estimate(history)
\* - estimate(prefix)), are strictly greater than maxHistoryTokens; in every
\* other case the history to summarize is the event's, unchanged.
C23_PrunerInvokedExactlyWhenOverBudget ==
    \A s \in Sessions :
        /\ cyc[s].pruneInvoked => BudgetComputed(cyc[s])
        /\ BudgetComputed(cyc[s]) =>
              /\ cyc[s].pruneInvoked
                   <=> /\ cyc[s].prep.tokensBefore.finite
                       /\ NewContentOf(cyc[s]) > MaxHistoryTokensOf(cyc[s])
              /\ ~cyc[s].pruneInvoked
                   => cyc[s].messagesToSummarize = cyc[s].prep.messagesToSummarize

\* a cycle whose new-content tokens are exactly maxHistoryTokens skipped the
\* pruner
C23_Witness ==
    \E s \in Sessions :
        /\ BudgetComputed(cyc[s])
        /\ cyc[s].prep.tokensBefore.finite
        /\ cyc[s].prep.messagesToSummarize # << >>
        /\ NewContentOf(cyc[s]) = MaxHistoryTokensOf(cyc[s])
        /\ ~cyc[s].pruneInvoked

\* ------------------------------------------------------------------ C24
\* the event is a split turn with a non-empty prefix
SplitTurnWithPrefix(c) ==
    c.prep.isSplitTurn /\ c.prep.turnPrefixMessages # << >>

\* C24: the prefix pass runs exactly when the event is a split turn and the
\* prefix is not empty. It is started with the fixed turn-prefix instructions
\* and no prior summary, over the prefix alone, and the summary body is then
\* historySummary, the separator, prefixSummary; otherwise no prefix call is
\* made and the body is the history summary alone.
C24_PrefixPassOnSplitTurn ==
    \A s \in Sessions :
        /\ \A i \in CallsOf(cyc[s], {"prefix"}) :
              /\ SplitTurnWithPrefix(cyc[s])
              /\ cyc[s].calls[i].instr = TURN_PREFIX_INSTRUCTIONS
              /\ cyc[s].calls[i].k = 1 => cyc[s].calls[i].prior = Undefined
              /\ cyc[s].calls[i].n
                   = Len(chunkMessagesByMaxTokens(cyc[s].prep.turnPrefixMessages,
                                                   cyc[s].calls[i].maxChunkTokens))
        /\ \A i \in CallsOf(cyc[s], {"dropped", "history"}) :
              cyc[s].calls[i].instr = CustomInstructions
        /\ (Returned(cyc[s]) /\ cyc[s].path = "success") =>
              IF SplitTurnWithPrefix(cyc[s])
              THEN \E i \in CallsOf(cyc[s], {"prefix"}) :
                      /\ cyc[s].calls[i].k = cyc[s].calls[i].n
                      /\ cyc[s].result.summary
                           = cyc[s].historySummary \o TurnPrefixSeparator
                               \o Reply("prefix", cyc[s].calls[i].n)
                               \o SectionsOf(cyc[s])
              ELSE /\ CallsOf(cyc[s], {"prefix"}) = {}
                   /\ cyc[s].result.summary
                        = cyc[s].historySummary \o SectionsOf(cyc[s])

\* a split turn with a prefix returned history summary, separator and prefix
\* summary
C24_Witness ==
    \E s \in Sessions :
        /\ Returned(cyc[s]) /\ cyc[s].path = "success"
        /\ SplitTurnWithPrefix(cyc[s])
        /\ HasReply(cyc[s].historySummary)
        /\ \E i \in 1..Len(cyc[s].result.summary) :
              cyc[s].result.summary[i] = TurnPrefixSeparator[1]

\* ------------------------------------------------------------------ C25
\* the chunk ceiling from the adaptive ratio over the retained history and the
\* turn prefix together
CombinedChunkCeiling(c) ==
    LET contextWindowTokens == resolveContextWindowTokens(c.hasModel)
        ratio == computeAdaptiveChunkRatio(
                     c.messagesToSummarize \o c.prep.turnPrefixMessages,
                     contextWindowTokens)
        ceiling == (contextWindowTokens * ratio) \div 1000
    IN IF ceiling > 1 THEN ceiling ELSE 1

\* C25: the chunk ceiling of the retained-history pass is computed from the
\* adaptive ratio over the retained history (after pruning) and the turn prefix
\* together, and the history pass and the prefix pass of a cycle are called with
\* the same maxChunkTokens and the same reserveTokens.
C25_OneChunkSizingForHistoryAndPrefix ==
    \A s \in Sessions :
        \A i \in CallsOf(cyc[s], {"history", "prefix"}) :
            /\ cyc[s].calls[i].maxChunkTokens = CombinedChunkCeiling(cyc[s])
            /\ cyc[s].calls[i].reserveTokens
                 = (IF cyc[s].prep.reserveTokens > 1
                    THEN cyc[s].prep.reserveTokens ELSE 1)
            /\ \A j \in CallsOf(cyc[s], {"history", "prefix"}) :
                  /\ cyc[s].calls[j].maxChunkTokens = cyc[s].calls[i].maxChunkTokens
                  /\ cyc[s].calls[j].reserveTokens = cyc[s].calls[i].reserveTokens

\* a cycle with a history pass and a prefix pass where the ratio over the prefix
\* alone would give another ceiling than the ratio over both
C25_Witness ==
    \E s \in Sessions :
        /\ CallsOf(cyc[s], {"history"}) # {}
        /\ CallsOf(cyc[s], {"prefix"}) # {}
        /\ cyc[s].pruneInvoked
        /\ computeAdaptiveChunkRatio(cyc[s].prep.turnPrefixMessages,
                                     resolveContextWindowTokens(cyc[s].hasModel))
             # computeAdaptiveChunkRatio(
                   cyc[s].messagesToSummarize \o cyc[s].prep.turnPrefixMessages,
                   resolveContextWindowTokens(cyc[s].hasModel))

\* ------------------------------------------------------------------ C26
\* the dropped pass of the cycle returned its summary: the call for its last
\* chunk returned
DroppedPassSucceeded(c) ==
    \E i \in CallsOf(c, {"dropped"}) :
        c.calls[i].k = c.calls[i].n /\ c.calls[i].status = "ok"

\* C26: the dropped pass is seeded with previousSummary; when it succeeds its
\* result, and not previousSummary, is the prior context of the retained-history
\* pass (previousSummary -> dropped summary -> history summary); the prefix pass
\* gets no prior summary.
C26_SummaryChain ==
    \A s \in Sessions :
        \A i \in 1..Len(cyc[s].calls) :
            LET call == cyc[s].calls[i]
            IN call.k = 1 =>
                 CASE call.pass = "dropped" ->
                         call.prior = cyc[s].prep.previousSummary
                   [] call.pass = "history" ->
                         IF DroppedPassSucceeded(cyc[s])
                         THEN /\ i > 1
                              /\ cyc[s].calls[i - 1].pass = "dropped"
                              /\ call.prior
                                   = Some(Reply("dropped", cyc[s].calls[i - 1].n))
                         ELSE call.prior = cyc[s].prep.previousSummary
                   [] OTHER -> call.prior = Undefined

\* with a previous summary given, the dropped pass succeeded and the history
\* pass started from its result
C26_Witness ==
    \E s \in Sessions :
        /\ cyc[s].prep.previousSummary.def
        /\ DroppedPassSucceeded(cyc[s])
        /\ \E i \in CallsOf(cyc[s], {"history"}) :
              /\ cyc[s].calls[i].k = 1
              /\ cyc[s].calls[i].prior # cyc[s].prep.previousSummary
              /\ HasReply(cyc[s].calls[i].prior.txt)

\* ------------------------------------------------------------------ C27
\* the memory requests of the cycle so far are, in order, a prefix of: store
\* (when there is work in progress), query (when there is a query text)
MemoryRequestsDue(c) ==
    (IF c.wip.def THEN << "store" >> ELSE << >>)
    \o (IF extractMemoryQuery(AllMessages(c)) THEN << "query" >> ELSE << >>)

\* C27: memory processing (store the work in progress, then retrieve memories)
\* is over before the model and credential check and before any model call; it
\* happens whether or not summarization then succeeds; a failing memory service
\* never fails the cycle; and the store attempt precedes the query.
C27_MemoriesFirstAndHarmless ==
    \A s \in Sessions :
        /\ cyc[s].pc \in {"memStore", "memQuery"} =>
              /\ cyc[s].credential = "unasked"
              /\ cyc[s].calls = << >>
              /\ cyc[s].path = ""
        /\ cyc[s].pc = "memStore" => cyc[s].memLog = << "store" >>
        /\ cyc[s].pc = "memQuery" => cyc[s].memLog = MemoryRequestsDue(cyc[s])
        /\ cyc[s].pc \in {"getKey", "call", "returned", "thrown"} =>
              cyc[s].memLog = MemoryRequestsDue(cyc[s])
        /\ cyc[s].pc = "thrown" => cyc[s].credential = "rejects"

\* the store request failed and the query returned nothing, and the cycle
\* returned its summary all the same
C27_Witness ==
    \E s \in Sessions :
        /\ Returned(cyc[s]) /\ cyc[s].path = "success"
        /\ cyc[s].memLog = << "store", "query" >>
        /\ WipMemory(cyc[s].wip) \notin memStore[cyc[s].world]
        /\ cyc[s].memoriesSection = << >>

\* ------------------------------------------------------------------ C22
\* what the handlers of session t read: the module's variables, the same for
\* every session of the process
ObservedBy(t) ==
    [turnCount |-> ext._turnCount, messageBuffer |-> ext._messageBuffer,
     extracting |-> ext._extracting]

\* the step is a turn_end or an input event of session s
EventOf(s) ==
    /\ Len(ext'.handlers) > Len(ext.handlers) \/ ext'.inputs > ext.inputs
    /\ ext'.lastEvent.session = s

\* C22: turn counters and message buffers are per-session state: a turn_end or
\* input event of one session never changes the turn count, the message buffer
\* or the extraction lock that another session observes.
C22_PerSessionState ==
    [][\A s, t \in ExtSessions :
          s # t /\ EventOf(s) => ObservedBy(t)' = ObservedBy(t)]_vars

\* ------------------------------------------------------------------ C28
\* C28: the extractor runs after every N turns: each window of
\* EXTRACT_EVERY_N_TURNS consecutive turns since the last extraction leads to
\* one extraction run, and the run calls the model and stores the result when
\* enough messages are buffered and a key is usable.
C28_ExtractsEveryNTurns ==
    /\ Len(ext.runs) = ext._turnCount \div EXTRACT_EVERY_N_TURNS
    /\ \A i \in 1..Len(ext.runs) :
          /\ ext.runs[i].turn = i * EXTRACT_EVERY_N_TURNS
          /\ ext.runs[i].buffered >= MinBufferedMessages /\ ext.apiKey # "none" =>
                /\ ext.runs[i].calledModel
                /\ ext.runs[i].pc = "done" => ext.runs[i].outcome = "stored"

\* ------------------------------------------------------------------ C30
\* C30: at most one extraction run is in flight at any time; a run started
\* while _extracting is set returns without calling the model; _extracting is
\* set exactly while the run that set it is in flight, so every end of such a
\* run (success, early return, error) resets it, and a run in flight can
\* always take its next step: the lock is never left held.
C30_AtMostOneExtractionInFlight ==
    /\ Cardinality(InFlight(ext)) <= 1
    /\ ext._extracting <=> InFlight(ext) # {}
    /\ \A i \in 1..Len(ext.runs) :
          /\ ext.runs[i].lockedAtStart =>
                /\ ext.runs[i].outcome = "busy"
                /\ ~ext.runs[i].calledModel /\ ~ext.runs[i].setLock
          /\ ext.runs[i].calledModel => ext.runs[i].setLock
          /\ i \in InFlight(ext) =>
                ENABLED (ModelReplyArrives(i) \/ StoreReplyArrives(i))

\* a run was turned away while another held the lock, an earlier run that set
\* the lock ended on an error, and the lock is free again
C30_Witness ==
    /\ \E i \in 1..Len(ext.runs) : ext.runs[i].outcome = "busy"
    /\ \E i \in 1..Len(ext.runs) :
          ext.runs[i].setLock /\ ext.runs[i].outcome = "caught"
    /\ ~ext._extracting

\* ------------------------------------------------------------------ C29
\* what the compaction cycle of the script returns when no extraction reaches
\* the memory service
ResultWithoutExtraction(c) ==
    /\ c.path = (IF script.callOk THEN "success" ELSE "fallback")
    /\ c.memoriesSection =
          formatMemoriesSection({OldMemory, WipMemory(script.wip)})

\* C29: background extraction is detached: every turn_end handler has returned
\* by the end of its own step, whether or not the run it started has ended; no
\* run ends by rejecting; an extraction that fails leaves the memory service as
\* it was; and a compaction cycle beside it always has its next step and, when
\* no extraction was stored, returns what it returns without the extractor.
C29_ExtractionDetached ==
    /\ Len(ext.handlers) = ext._turnCount
    /\ \A h \in 1..Len(ext.handlers) : ext.handlers[h] = "returned"
    /\ \A i \in 1..Len(ext.runs) :
          ext.runs[i].pc = "done" =>
             ext.runs[i].outcome \in {"busy", "short", "noKey", "modelError",
                                      "unparsable", "empty", "storeError",
                                      "caught", "stored"}
    /\ ExtractionMemory \in memStore[1] =>
          \E i \in 1..Len(ext.runs) : ext.runs[i].outcome = "stored"
    /\ \A s \in Sessions :
          /\ cyc[s].pc # "thrown"
          /\ Running(cyc[s]) => ENABLED CycleStep(s)
          /\ Returned(cyc[s]) /\ ExtractionMemory \notin memStore[1] =>
                ResultWithoutExtraction(cyc[s])

\* a handler returned while its run is still waiting for the model, an earlier
\* run failed on a rejected request or on the store, nothing was stored, and
\* the compaction cycle returned its summary
C29_Witness ==
    /\ \E i \in 1..Len(ext.runs) : ext.runs[i].outcome \in {"caught", "storeError"}
    /\ \E i \in 1..Len(ext.runs) :
          ext.runs[i].pc = "model" /\ Len(ext.handlers) >= ext.runs[i].turn
    /\ \E s \in Sessions : Returned(cyc[s]) /\ cyc[s].path = "success"
    /\ ExtractionMemory \notin memStore[1]

\* ------------------------------------------------------------------ C31
\* C31: after any sequence of turn_end and input events the message buffer
\* holds at most MAX_CONTEXT_MESSAGES entries, and they are the most recent
\* accepted messages in arrival order (the oldest evicted first);
\* _lastExtractedTurn <= _turnCount in every reachable state.
C31_BufferHoldsMostRecent ==
    LET buffer == ext._messageBuffer IN
    /\ Len(buffer) <= MAX_CONTEXT_MESSAGES
    /\ Len(buffer) = Min(ext.arrivals, MAX_CONTEXT_MESSAGES)
    /\ \A k \in 1..Len(buffer) : buffer[k].text = ext.arrivals - Len(buffer) + k
    /\ ext._lastExtractedTurn <= ext._turnCount

\* the oldest message has been evicted, a turn came without text, and an
\* accepted input is still in the full buffer
C31_Witness ==
    /\ ext.arrivals = MAX_CONTEXT_MESSAGES + 1
    /\ Len(ext._messageBuffer) = MAX_CONTEXT_MESSAGES
    /\ ext._messageBuffer[1].text = 2
    /\ ext._turnCount > ext.arrivals - ext.inputs
    /\ \E k \in 1..Len(ext._messageBuffer) : ext._messageBuffer[k].role = "Human"

\* ------------------------------------------------------------------ C32
\* the history the passes after the pruning work on, lines 595 and 628
HistoryAfterPruning(c) ==
    IF c.pruneInvoked /\ c.pruned.droppedChunks > 0
    THEN c.pruned.messages ELSE c.prep.messagesToSummarize

\* the chunk ceiling of lines 663-665 over that history and the event's prefix
CeilingWithPrefix(c) ==
    LET contextWindowTokens == resolveContextWindowTokens(c.hasModel)
        ratio == computeAdaptiveChunkRatio(
                     HistoryAfterPruning(c) \o c.prep.turnPrefixMessages,
                     contextWindowTokens)
    IN Max(1, (contextWindowTokens * ratio) \div 1000)

\* C32: pruning touches only the history to summarize: the pruner splits the
\* event's history and nothing else; the turn prefix goes unchanged into the
\* chunk-ratio computation and the prefix pass; the retained history replaces
\* messagesToSummarize only when droppedChunks > 0; and the dropped-history
\* pass runs only when droppedChunks > 0 and the dropped list is not empty.
C32_PruningTouchesOnlyHistory ==
    \A s \in Sessions :
        LET c == cyc[s] IN
        c.credential = "key" =>
          /\ c.pruneInvoked =>
                c.pruned.droppedMessagesList \o c.pruned.messages
                  = c.prep.messagesToSummarize
          /\ c.messagesToSummarize = HistoryAfterPruning(c)
          /\ c.pc = "call" =>
                Flatten(c.chunks) =
                   CASE c.pass = "dropped" -> c.pruned.droppedMessagesList
                     [] c.pass = "history" -> HistoryAfterPruning(c)
                     [] OTHER -> c.prep.turnPrefixMessages
          /\ \A i \in CallsOf(c, {"history", "prefix"}) :
                c.calls[i].maxChunkTokens = CeilingWithPrefix(c)
          /\ CallsOf(c, {"dropped"}) # {} =>
                /\ c.pruneInvoked /\ c.pruned.droppedChunks > 0
                /\ Len(c.pruned.droppedMessagesList) > 0

\* a split turn whose history was pruned: the dropped pass ran, and the prefix
\* pass is working on the event's prefix
C32_Witness ==
    \E s \in Sessions :
        /\ cyc[s].pc = "call" /\ cyc[s].pass = "prefix"
        /\ cyc[s].prep.turnPrefixMessages # << >>
        /\ cyc[s].pruned.droppedChunks > 0
        /\ CallsOf(cyc[s], {"dropped"}) # {}
        /\ cyc[s].messagesToSummarize # cyc[s].prep.messagesToSummarize

====
